---- MODULE Spec2Model ----
(***************************************************************************)
(* Model of the Content Understanding MCP servers of frontier-platform:    *)
(*   - the extraction pipeline   (extract_loan_fields),                    *)
(*   - the job engine            (ContentUnderstandingClient),             *)
(*   - the tool dispatcher       (call_tool),                              *)
(*   - the hand-rolled session multiplexer (local_mcp_server.handle_mcp).  *)
(*                                                                         *)
(* Python strings that the code inspects character by character are        *)
(* sequences of one-character strings.  An optional value (str | None) is  *)
(* a set with at most one element: Absent is None, Some(v) is the value v. *)
(***************************************************************************)
EXTENDS Integers, Sequences, FiniteSets, Bags, TLC

Absent == {}

Some(v) == {v}

Get(o) == CHOOSE v \in o : TRUE

Min(a, b) == IF a <= b THEN a ELSE b

(***************************************************************************)
(* Program constants                                                       *)
(***************************************************************************)
\* for _ in range(60)
MaxAttempts == 60

\* await asyncio.sleep(2)
PollDelay == 2

\* markdown[:2000]
RawCap == 2000

(***************************************************************************)
(* Evidence keys.  A key string is its lower-case text together with       *)
(* whether some letter is upper-case and whether it has leading/trailing   *)
(* whitespace; .lower() and .strip() act on these components.              *)
(***************************************************************************)
Lit(w) == [word |-> w, upper |-> FALSE, pad |-> FALSE]

Lower(k) == [k EXCEPT !.upper = FALSE]

Strip(k) == [k EXCEPT !.pad = FALSE]

\* truthiness of a str: non-empty
Truthy(k) == ~(k.word = "" /\ ~k.pad)

Digits == {"0", "1", "2", "3", "4", "5", "6", "7", "8", "9"}

DigitVal(c) ==
  CASE c = "0" -> 0 [] c = "1" -> 1 [] c = "2" -> 2 [] c = "3" -> 3
    [] c = "4" -> 4 [] c = "5" -> 5 [] c = "6" -> 6 [] c = "7" -> 7
    [] c = "8" -> 8 [] c = "9" -> 9

\* "".join(filter(pred, s)) / s.replace(c, "")
RECURSIVE Filter(_, _)
Filter(s, keep) ==
  IF s = <<>> THEN <<>>
  ELSE IF Head(s) \in keep THEN <<Head(s)>> \o Filter(Tail(s), keep)
       ELSE Filter(Tail(s), keep)

Replace(s, c) == Filter(s, {s[i] : i \in 1..Len(s)} \ {c})

\* s[-n:]
LastN(s, n) == SubSeq(s, Len(s) - Min(n, Len(s)) + 1, Len(s))

\* FirstN with an inclusive upper index: s[:n + 1]
FirstN_Inclusive(s, n) == SubSeq(s, 1, Min(n + 1, Len(s)))

\* s[:n]
FirstN(s, n) == SubSeq(s, 1, Min(n, Len(s)))

RECURSIVE StripLeft(_)
StripLeft(s) ==
  IF s # <<>> /\ Head(s) = " " THEN StripLeft(Tail(s)) ELSE s

RECURSIVE StripRight(_)
StripRight(s) ==
  IF s # <<>> /\ s[Len(s)] = " " THEN StripRight(SubSeq(s, 1, Len(s) - 1)) ELSE s

RECURSIVE DigitsValue(_)
DigitsValue(s) ==
  IF s = <<>> THEN 0 ELSE DigitsValue(SubSeq(s, 1, Len(s) - 1)) * 10 + DigitVal(s[Len(s)])

\* str.isdigit: the decimal digits and the other characters of Unicode with
\* the Digit property; "^1" and "^2" stand for the one-character strings
\* U+00B9 and U+00B2 (superscript one and two)
IsDigit == Digits \cup {"^1", "^2"}

RECURSIVE Pow10(_)
Pow10(n) == IF n = 0 THEN 1 ELSE 10 * Pow10(n - 1)

\* a decimal number mant / 10^scale without trailing zeros in the fraction
RECURSIVE Normal(_, _)
Normal(mant, scale) ==
  IF scale > 0 /\ mant % 10 = 0 THEN Normal(mant \div 10, scale - 1)
  ELSE [mant |-> mant, scale |-> scale]

\* the values of a Python float: a finite number mant / 10^scale, an
\* infinity (mant is its sign) or nan
Finite(mant, scale) ==
  [kind |-> "finite", mant |-> Normal(mant, scale).mant, scale |-> Normal(mant, scale).scale]

Infinity == [kind |-> "inf", mant |-> 1, scale |-> 0]

NaN == [kind |-> "nan", mant |-> 0, scale |-> 0]

DotAt(s) == {i \in 1..Len(s) : s[i] = "."}

ExpAt(s) == {i \in 1..Len(s) : s[i] \in {"e", "E"}}

\* str.lower() on the letters of the float grammar
LowerChar(c) ==
  CASE c = "N" -> "n" [] c = "A" -> "a" [] c = "I" -> "i" [] c = "F" -> "f"
    [] c = "T" -> "t" [] c = "Y" -> "y" [] OTHER -> c

LowerStr(s) == [i \in 1..Len(s) |-> LowerChar(s[i])]

\* digitpart ::= digit (["_"] digit)*
DigitPart(s) ==
  /\ s # <<>>
  /\ \A i \in 1..Len(s) : s[i] \in Digits \cup {"_"}
  /\ s[1] # "_" /\ s[Len(s)] # "_"
  /\ \A i \in 1..(Len(s) - 1) : ~(s[i] = "_" /\ s[i + 1] = "_")

\* number ::= [digitpart] "." digitpart | digitpart ["."]
IsNumber(s) ==
  IF DotAt(s) = {} THEN DigitPart(s)
  ELSE IF Cardinality(DotAt(s)) > 1 THEN FALSE
  ELSE LET d == CHOOSE i \in DotAt(s) : TRUE
           ip == SubSeq(s, 1, d - 1)
           fp == SubSeq(s, d + 1, Len(s))
       IN \/ (ip = <<>> /\ DigitPart(fp))
          \/ (DigitPart(ip) /\ (fp = <<>> \/ DigitPart(fp)))

\* the digits after the '.' of a number
FractionLen(s) ==
  IF DotAt(s) = {} THEN 0
  ELSE Len(Filter(SubSeq(s, (CHOOSE i \in DotAt(s) : TRUE) + 1, Len(s)), Digits))

\* exponent ::= ("e" | "E") [sign] digitpart, after the letter
IsExponent(s) ==
  IF s # <<>> /\ Head(s) \in {"+", "-"} THEN DigitPart(Tail(s)) ELSE DigitPart(s)

ExponentValue(s) ==
  IF Head(s) = "-" THEN 0 - DigitsValue(Filter(s, Digits))
  ELSE DigitsValue(Filter(s, Digits))

(***************************************************************************)
(* float(s): surrounding blanks are ignored, then                          *)
(*   floatvalue ::= [sign] (number [exponent] | "inf" | "infinity" | "nan")*)
(* with the words in any case.  Absent stands for ValueError.  The decimal *)
(* digits of the model are the ASCII ones, and its numbers are small       *)
(* enough to be represented exactly.                                       *)
(***************************************************************************)
ParseUnsigned(s) ==
  IF LowerStr(s) = <<"n", "a", "n">> THEN Some(NaN)
  ELSE IF LowerStr(s) \in {<<"i", "n", "f">>, <<"i", "n", "f", "i", "n", "i", "t", "y">>}
    THEN Some(Infinity)
  ELSE IF Cardinality(ExpAt(s)) > 1 THEN Absent
  ELSE LET e == IF ExpAt(s) = {} THEN Len(s) + 1 ELSE CHOOSE i \in ExpAt(s) : TRUE
           number == SubSeq(s, 1, e - 1)
           exponent == SubSeq(s, e + 1, Len(s))
       IN IF ~IsNumber(number) \/ (ExpAt(s) # {} /\ ~IsExponent(exponent)) THEN Absent
          ELSE LET mant == DigitsValue(Filter(number, Digits))
                   scale == FractionLen(number)
                            - (IF ExpAt(s) = {} THEN 0 ELSE ExponentValue(exponent))
               IN IF scale >= 0 THEN Some(Finite(mant, scale))
                  ELSE Some(Finite(mant * Pow10(0 - scale), 0))

Negate(o) == {[v EXCEPT !.mant = 0 - @] : v \in o}

float(str) ==
  LET s == StripRight(StripLeft(str))
  IN IF s = <<>> THEN Absent
     ELSE IF Head(s) = "-" THEN Negate(ParseUnsigned(Tail(s)))
     ELSE IF Head(s) = "+" THEN ParseUnsigned(Tail(s))
     ELSE ParseUnsigned(s)

(***************************************************************************)
(* LoanApplicationData                                                     *)
(***************************************************************************)
LoanApplicationData ==
  [applicant_name |-> Absent, ssn_last_4 |-> Absent, annual_income |-> Absent,
   employment_status |-> Absent, employer_name |-> Absent,
   loan_amount_requested |-> Absent, loan_purpose |-> Absent,
   property_address |-> Absent, confidence_score |-> Absent,
   raw_markdown |-> Absent]

FieldNames ==
  {"applicant_name", "ssn_last_4", "annual_income", "employment_status",
   "employer_name", "loan_amount_requested", "loan_purpose",
   "property_address", "confidence_score", "raw_markdown"}

\* the ordered synonym lists of loan_processor/mcp_server.py
McpSynonyms ==
  [applicant_name |-> <<"applicant name", "borrower name", "name", "full name", "applicant">>,
   ssn_last_4 |-> <<"ssn", "social security", "social security number", "ssn (last 4)">>,
   annual_income |-> <<"annual income", "yearly income", "income", "gross income", "annual salary">>,
   employment_status |-> <<"employment status", "employment", "work status">>,
   employer_name |-> <<"employer", "employer name", "company", "current employer">>,
   loan_amount_requested |-> <<"loan amount", "amount requested", "requested amount", "loan amount requested">>,
   loan_purpose |-> <<"loan purpose", "purpose", "purpose of loan", "loan type">>,
   property_address |-> <<"property address", "address", "property", "subject property">>]

\* kv.get("key", {}).get("content", "")
Content(o) == IF o = Absent THEN Lit("") ELSE Get(o)

ValueContent(o) == IF o = Absent THEN <<>> ELSE Get(o)

\* kv_lookup: dict[str, str] = {}
EmptyLookup == [k \in {} |-> <<>>]

\* BuildLookup with "if key:" in place of "if key and value:": a pair with
\* an empty value is kept
RECURSIVE BuildLookup_KeepEmpty(_, _)
BuildLookup_KeepEmpty(kv_pairs, kv_lookup) ==
  IF kv_pairs = <<>> THEN kv_lookup
  ELSE LET kv == Head(kv_pairs)
           key == Strip(Lower(Content(kv.key)))
           value == ValueContent(kv.value)
       IN IF Truthy(key)
          THEN BuildLookup_KeepEmpty(Tail(kv_pairs),
                 [k \in DOMAIN kv_lookup \cup {key.word} |->
                    IF k = key.word THEN value ELSE kv_lookup[k]])
          ELSE BuildLookup_KeepEmpty(Tail(kv_pairs), kv_lookup)

\* BuildLookup with kv_lookup.setdefault(key, value): the first pair wins
RECURSIVE BuildLookup_FirstWins(_, _)
BuildLookup_FirstWins(kv_pairs, kv_lookup) ==
  IF kv_pairs = <<>> THEN kv_lookup
  ELSE LET kv == Head(kv_pairs)
           key == Strip(Lower(Content(kv.key)))
           value == ValueContent(kv.value)
       IN IF Truthy(key) /\ value # <<>>
          THEN BuildLookup_FirstWins(Tail(kv_pairs),
                 [k \in DOMAIN kv_lookup \cup {key.word} |->
                    IF k \in DOMAIN kv_lookup THEN kv_lookup[k] ELSE value])
          ELSE BuildLookup_FirstWins(Tail(kv_pairs), kv_lookup)

\* kv_lookup: for kv in kv_pairs: if key and value: kv_lookup[key] = value
RECURSIVE BuildLookup(_, _)
BuildLookup(kv_pairs, kv_lookup) ==
  IF kv_pairs = <<>> THEN kv_lookup
  ELSE LET kv == Head(kv_pairs)
           key == Strip(Lower(Content(kv.key)))
           value == ValueContent(kv.value)
       IN IF Truthy(key) /\ value # <<>>
          THEN BuildLookup(Tail(kv_pairs),
                 [k \in DOMAIN kv_lookup \cup {key.word} |->
                    IF k = key.word THEN value ELSE kv_lookup[k]])
          ELSE BuildLookup(Tail(kv_pairs), kv_lookup)

\* FirstHit without the break: the last synonym found in the lookup wins
RECURSIVE FirstHit_NoBreak(_, _)
FirstHit_NoBreak(keys, kv_lookup) ==
  IF keys = <<>> THEN Absent
  ELSE IF FirstHit_NoBreak(Tail(keys), kv_lookup) # Absent
       THEN FirstHit_NoBreak(Tail(keys), kv_lookup)
  ELSE IF Head(keys) \in DOMAIN kv_lookup THEN Some(kv_lookup[Head(keys)])
  ELSE Absent

\* for key in [...]: if key in kv_lookup: ...; break
RECURSIVE FirstHit(_, _)
FirstHit(keys, kv_lookup) ==
  IF keys = <<>> THEN Absent
  ELSE IF Head(keys) \in DOMAIN kv_lookup THEN Some(kv_lookup[Head(keys)])
  ELSE FirstHit(Tail(keys), kv_lookup)

TextField(keys, kv_lookup) == FirstHit(keys, kv_lookup)

\* SsnField with the break inside "if len(digits) >= 4": a synonym whose
\* value has too few digits is passed over
RECURSIVE SsnField_NextSynonym(_, _)
SsnField_NextSynonym(keys, kv_lookup) ==
  IF keys = <<>> THEN Absent
  ELSE IF /\ Head(keys) \in DOMAIN kv_lookup
          /\ Len(Filter(kv_lookup[Head(keys)], IsDigit)) >= 4
       THEN Some(LastN(Filter(kv_lookup[Head(keys)], IsDigit), 4))
  ELSE SsnField_NextSynonym(Tail(keys), kv_lookup)

SsnField(keys, kv_lookup) ==
  LET hit == FirstHit(keys, kv_lookup)
  IN IF hit = Absent THEN Absent
     ELSE LET digits == Filter(Get(hit), IsDigit)
          IN IF Len(digits) >= 4 THEN Some(LastN(digits, 4)) ELSE Absent

NumberField(keys, kv_lookup) ==
  LET hit == FirstHit(keys, kv_lookup)
  IN IF hit = Absent THEN Absent
     ELSE float(Replace(Replace(Get(hit), ","), "$"))

\* Confidences with field_data.get("confidence", 0): a field without a
\* confidence counts as 0
RECURSIVE Confidences_ZeroDefault(_)
Confidences_ZeroDefault(fields) ==
  IF fields = <<>> THEN <<>>
  ELSE IF Head(fields).isDict
       THEN <<IF Head(fields).confidence # Absent THEN Get(Head(fields).confidence) ELSE 0>>
              \o Confidences_ZeroDefault(Tail(fields))
       ELSE Confidences_ZeroDefault(Tail(fields))

RECURSIVE Confidences(_)
Confidences(fields) ==
  IF fields = <<>> THEN <<>>
  ELSE IF Head(fields).isDict /\ Head(fields).confidence # Absent
       THEN <<Get(Head(fields).confidence)>> \o Confidences(Tail(fields))
       ELSE Confidences(Tail(fields))

RECURSIVE Sum(_)
Sum(s) == IF s = <<>> THEN 0 ELSE Head(s) + Sum(Tail(s))

RECURSIVE Gcd(_, _)
Gcd(a, b) == IF b = 0 THEN a ELSE Gcd(b, a % b)

\* sum(confidences) / len(confidences), as a reduced fraction
Mean(confidences) ==
  LET g == Gcd(Sum(confidences), Len(confidences))
  IN [num |-> Sum(confidences) \div g, den |-> Len(confidences) \div g]

\* analysis_result.get("result", {}).get("contents", [])
ContentsOf(analysis_result) ==
  IF analysis_result.result = Absent THEN <<>>
  ELSE IF Get(analysis_result.result).contents = Absent THEN <<>>
  ELSE Get(Get(analysis_result.result).contents)

\* ExtractWith with a default confidence of zero for a result without sections
ExtractWith_DefaultConfidence(synonyms, analysis_result) ==
  LET contents == ContentsOf(analysis_result)
  IN IF contents = <<>>
     THEN [LoanApplicationData EXCEPT !.confidence_score = Some([num |-> 0, den |-> 1])]
     ELSE LET content == contents[1]
              markdown == content.markdown
              kv_lookup == BuildLookup(content.keyValuePairs, EmptyLookup)
              confidences == Confidences(content.fields)
          IN [applicant_name |-> TextField(synonyms.applicant_name, kv_lookup),
              ssn_last_4 |-> SsnField(synonyms.ssn_last_4, kv_lookup),
              annual_income |-> NumberField(synonyms.annual_income, kv_lookup),
              employment_status |-> TextField(synonyms.employment_status, kv_lookup),
              employer_name |-> TextField(synonyms.employer_name, kv_lookup),
              loan_amount_requested |-> NumberField(synonyms.loan_amount_requested, kv_lookup),
              loan_purpose |-> TextField(synonyms.loan_purpose, kv_lookup),
              property_address |-> TextField(synonyms.property_address, kv_lookup),
              confidence_score |-> IF confidences # <<>> THEN Some(Mean(confidences)) ELSE Absent,
              raw_markdown |-> IF markdown # <<>> THEN Some(FirstN(markdown, RawCap)) ELSE Absent]

ExtractWith(synonyms, analysis_result) ==
  LET contents == ContentsOf(analysis_result)
  IN IF contents = <<>> THEN LoanApplicationData
     ELSE LET content == contents[1]
              markdown == content.markdown
              kv_lookup == BuildLookup(content.keyValuePairs, EmptyLookup)
              confidences == Confidences(content.fields)
          IN [applicant_name |-> TextField(synonyms.applicant_name, kv_lookup),
              ssn_last_4 |-> SsnField(synonyms.ssn_last_4, kv_lookup),
              annual_income |-> NumberField(synonyms.annual_income, kv_lookup),
              employment_status |-> TextField(synonyms.employment_status, kv_lookup),
              employer_name |-> TextField(synonyms.employer_name, kv_lookup),
              loan_amount_requested |-> NumberField(synonyms.loan_amount_requested, kv_lookup),
              loan_purpose |-> TextField(synonyms.loan_purpose, kv_lookup),
              property_address |-> TextField(synonyms.property_address, kv_lookup),
              confidence_score |-> IF confidences # <<>> THEN Some(Mean(confidences)) ELSE Absent,
              raw_markdown |-> IF markdown # <<>> THEN Some(FirstN(markdown, RawCap)) ELSE Absent]

extract_loan_fields(analysis_result) == ExtractWith(McpSynonyms, analysis_result)

\* the ordered synonym lists of azure-functions/function_app.py
\* AzureSynonyms with "employer name" tried before "employer"
AzureSynonyms_EmployerNameFirst ==
  [applicant_name |-> <<"applicant name", "borrower name", "name", "full name">>,
   ssn_last_4 |-> <<"ssn", "social security", "ssn (last 4)">>,
   annual_income |-> <<"annual income", "yearly income", "income", "gross income">>,
   employment_status |-> <<"employment status", "employment">>,
   employer_name |-> <<"employer name", "employer", "current employer">>,
   loan_amount_requested |-> <<"loan amount", "amount requested", "loan amount requested">>,
   loan_purpose |-> <<"loan purpose", "purpose">>,
   property_address |-> <<"property address", "address", "property">>]

AzureSynonyms ==
  [applicant_name |-> <<"applicant name", "borrower name", "name", "full name">>,
   ssn_last_4 |-> <<"ssn", "social security", "ssn (last 4)">>,
   annual_income |-> <<"annual income", "yearly income", "income", "gross income">>,
   employment_status |-> <<"employment status", "employment">>,
   employer_name |-> <<"employer", "employer name", "current employer">>,
   loan_amount_requested |-> <<"loan amount", "amount requested", "loan amount requested">>,
   loan_purpose |-> <<"loan purpose", "purpose">>,
   property_address |-> <<"property address", "address", "property">>]

\* the synonym lists of a server variant
Synonyms(v) == IF v = "mcp" THEN McpSynonyms ELSE AzureSynonyms

\* extract_loan_fields of a server variant
ExtractFor(v, analysis_result) ==
  IF v = "mcp" THEN extract_loan_fields(analysis_result)
  ELSE ExtractWith(AzureSynonyms, analysis_result)

(***************************************************************************)
(* Job engine and tool dispatcher.  A tool invocation is a record; the     *)
(* steps below are the stretches of call_tool / analyze_document /         *)
(* _poll_for_result between two awaits.                                    *)
(*                                                                         *)
(* variant is "mcp" (loan_processor/mcp_server.py) or "azure"              *)
(* (azure-functions/function_app.py).  The analysis backend answers poll   *)
(* number termAt with termStatus and every earlier poll with a status that *)
(* is not terminal.                                                        *)
(***************************************************************************)
ToolNames == {"extract_loan_data", "get_document_text"}

InProgress == {"Running", "NotStarted", "", "Unrecognized"}

TerminalStatuses == {"Succeeded", "Failed", "Canceled"}

\* the answers on which response.raise_for_status() raises
HttpErrors == {"unauthorized", "server_error"}

\* str(e) of the HTTPStatusError
HttpError(answer) ==
  IF answer = "unauthorized" THEN "HTTPStatusError 401" ELSE "HTTPStatusError 500"

\* the response of one tool invocation: a TextContent list (mcp) or an
\* HttpResponse (azure)
Response(status, tag, msg, data) ==
  [status |-> status, tag |-> tag, msg |-> msg, data |-> data]

\* call_tool returning an error for an exception e caught at the dispatcher
ErrorResponse(variant, e) ==
  IF variant = "mcp" THEN Response(200, "Error", e, Absent)
  ELSE Response(500, "error", e, Absent)

MissingArgumentResponse(variant) ==
  IF variant = "mcp" THEN Response(200, "Error", "document_url is required", Absent)
  ELSE Response(400, "error", "document_url is required", Absent)

UnknownToolResponse(variant, name) ==
  IF variant = "mcp" THEN Response(200, "Unknown tool", name, Absent)
  ELSE Response(400, "error: Unknown tool", name, Absent)

\* content.get(...) / contents[0].get(...) on a first section that is not a
\* JSON object raises AttributeError
HandlerRaises(result) ==
  ContentsOf(result) # <<>> /\ ~ContentsOf(result)[1].isDict

\* the success branch of call_tool once analyze_document has returned result
ResultResponse(variant, name, result) ==
  IF name = "extract_loan_data"
  THEN Response(200, "json", "", Some(ExtractFor(variant, result)))
  ELSE IF ContentsOf(result) # <<>>
       THEN Response(200, "text", "", Some(ContentsOf(result)[1].markdown))
       ELSE IF variant = "mcp"
            THEN Response(200, "text", "No content extracted from document", Absent)
            ELSE Response(200, "text", "", Some(<<>>))

NewCall(variant, name, document_url) ==
  [pc |-> "call", variant |-> variant, name |-> name, document_url |-> document_url,
   state |-> "None", operation_location |-> Absent,
   token |-> Absent, sent |-> {}, slept |-> 0,
   attempts |-> 0, termAt |-> 0, termStatus |-> "",
   lastStatus |-> "", lastPayload |-> Absent, result |-> Absent,
   tokenCalls |-> 0, clientCalls |-> 0, submitCalls |-> 0, pollCalls |-> 0,
   raised |-> "", escaped |-> FALSE, response |-> Absent]

\* return a response from call_tool
Return(call, response) ==
  [call EXCEPT !.pc = "done", !.response = Some(response)]

\* Raise with "except ValueError" in place of "except Exception": any other
\* exception leaves call_tool
Raise_OnlyValueError(call, state, e) ==
  IF e \in {"No Operation-Location header in response",
            "Analysis failed with status: Failed",
            "Analysis failed with status: Canceled",
            "AZURE_AI_SERVICES_ENDPOINT is required"}
  THEN [Return(call, ErrorResponse(call.variant, e)) EXCEPT !.state = state, !.raised = e]
  ELSE [call EXCEPT !.pc = "done", !.state = state, !.raised = e, !.escaped = TRUE]

\* an exception e raised below call_tool's try block, caught by its except
Raise(call, state, e) ==
  [Return(call, ErrorResponse(call.variant, e)) EXCEPT !.state = state, !.raised = e]

(***************************************************************************)
(* get_cu_client: the lazily created singleton of the azure variant.       *)
(* Gives the value of _cu_client after the call; Absent when it raises     *)
(* because AZURE_AI_SERVICES_ENDPOINT is not set.                          *)
(***************************************************************************)
get_cu_client(cu_client, endpoint) ==
  IF cu_client = Absent
  THEN IF ~endpoint THEN Absent ELSE Some("ContentUnderstandingClient")
  ELSE cu_client

(***************************************************************************)
(* call_tool up to the first await: name dispatch, argument validation,    *)
(* get_cu_client (azure), _get_token.  client is the backend client the    *)
(* handler obtains (Absent: get_cu_client raises), tokenOk whether the     *)
(* credential yields a token.                                              *)
(***************************************************************************)
\* DispatchStep whose second branch is a plain else: every name other than
\* extract_loan_data is handled as get_document_text
DispatchStep_DefaultTool(call, client, tokenOk) ==
  IF call.document_url = Absent \/ call.document_url = Some(<<>>)
    THEN Return(call, MissingArgumentResponse(call.variant))
  ELSE IF client = Absent
    THEN Raise([call EXCEPT !.clientCalls = @ + 1], "None",
               "AZURE_AI_SERVICES_ENDPOINT is required")
  ELSE IF ~tokenOk
    THEN Raise([call EXCEPT !.clientCalls = @ + 1, !.tokenCalls = @ + 1], "None",
               "CredentialUnavailableError")
  ELSE [call EXCEPT !.clientCalls = @ + 1, !.tokenCalls = @ + 1,
                    !.token = Some(call.tokenCalls + 1),
                    !.pc = "submit", !.state = "Submitted"]

\* DispatchStep that obtains the client and the token before it validates
\* document_url
DispatchStep_LateValidation(call, client, tokenOk) ==
  IF call.name \notin ToolNames
    THEN Return(call, UnknownToolResponse(call.variant, call.name))
  ELSE IF client = Absent
    THEN Raise([call EXCEPT !.clientCalls = @ + 1], "None",
               "AZURE_AI_SERVICES_ENDPOINT is required")
  ELSE IF ~tokenOk
    THEN Raise([call EXCEPT !.clientCalls = @ + 1, !.tokenCalls = @ + 1], "None",
               "CredentialUnavailableError")
  ELSE IF call.document_url = Absent \/ call.document_url = Some(<<>>)
    THEN Return([call EXCEPT !.clientCalls = @ + 1, !.tokenCalls = @ + 1],
                MissingArgumentResponse(call.variant))
  ELSE [call EXCEPT !.clientCalls = @ + 1, !.tokenCalls = @ + 1,
                    !.token = Some(call.tokenCalls + 1),
                    !.pc = "submit", !.state = "Submitted"]

DispatchStep(call, client, tokenOk) ==
  IF call.name \notin ToolNames
    THEN Return(call, UnknownToolResponse(call.variant, call.name))
  ELSE IF call.document_url = Absent \/ call.document_url = Some(<<>>)
    THEN Return(call, MissingArgumentResponse(call.variant))
  ELSE IF client = Absent
    THEN Raise([call EXCEPT !.clientCalls = @ + 1], "None",
               "AZURE_AI_SERVICES_ENDPOINT is required")
  ELSE IF ~tokenOk
    THEN Raise([call EXCEPT !.clientCalls = @ + 1, !.tokenCalls = @ + 1], "None",
               "CredentialUnavailableError")
  ELSE [call EXCEPT !.clientCalls = @ + 1, !.tokenCalls = @ + 1,
                    !.token = Some(call.tokenCalls + 1),
                    !.pc = "submit", !.state = "Submitted"]

(***************************************************************************)
(* analyze_document: client.post, raise_for_status, Operation-Location.    *)
(* outcome is the backend's answer to the submission.                      *)
(***************************************************************************)
SubmitOutcomes == {"accepted", "no_location", "unauthorized", "server_error"}

\* SubmitStep without the check of the header: it polls the location None
SubmitStep_PollAnyway(call, outcome, termAt, termStatus) ==
  LET c == [call EXCEPT !.submitCalls = @ + 1, !.sent = @ \cup call.token]
  IN CASE outcome \in HttpErrors -> Raise(c, "Error", HttpError(outcome))
       [] outcome = "no_location" ->
            [c EXCEPT !.pc = "poll", !.state = "Polling",
                      !.termAt = termAt, !.termStatus = termStatus]
       [] outcome = "accepted" ->
            [c EXCEPT !.pc = "poll", !.state = "Polling",
                      !.operation_location = Some("Operation-Location"),
                      !.termAt = termAt, !.termStatus = termStatus]

SubmitStep(call, outcome, termAt, termStatus) ==
  LET c == [call EXCEPT !.submitCalls = @ + 1, !.sent = @ \cup call.token]
  IN CASE outcome \in HttpErrors -> Raise(c, "Error", HttpError(outcome))
       [] outcome = "no_location" ->
            Raise(c, "Error", "No Operation-Location header in response")
       [] outcome = "accepted" ->
            [c EXCEPT !.pc = "poll", !.state = "Polling",
                      !.operation_location = Some("Operation-Location"),
                      !.termAt = termAt, !.termStatus = termStatus]

(***************************************************************************)
(* One iteration of the loop of _poll_for_result: sleep, client.get,       *)
(* raise_for_status, status check; after the last iteration the            *)
(* TimeoutError.  status and payload are the backend's answer.             *)
(***************************************************************************)
\* PollStep that tests the attempt bound before the status of the poll
PollStep_BoundFirst(call, status, payload) ==
  LET c == [call EXCEPT !.slept = @ + PollDelay,
                        !.attempts = @ + 1, !.pollCalls = @ + 1,
                        !.sent = @ \cup call.token,
                        !.lastStatus = status, !.lastPayload = Some(payload)]
  IN IF c.attempts >= MaxAttempts
       THEN Raise(c, "TimedOut", "Document analysis timed out")
     ELSE IF status \in HttpErrors THEN Raise(c, "Error", HttpError(status))
     ELSE IF status = "Succeeded"
       THEN LET done == [c EXCEPT !.state = "Succeeded", !.result = Some(payload)]
            IN IF HandlerRaises(payload)
               THEN Raise(done, "Succeeded", "AttributeError")
               ELSE Return(done, ResultResponse(c.variant, c.name, payload))
     ELSE IF status \in {"Failed", "Canceled"}
       THEN Raise(c, status, IF status = "Failed" THEN "Analysis failed with status: Failed"
                                ELSE "Analysis failed with status: Canceled")
     ELSE IF c.attempts >= MaxAttempts
       THEN Raise(c, "TimedOut", "Document analysis timed out")
     ELSE c

\* PollStep whose failure test names Failed only: Canceled is polled again
PollStep_FailedOnly(call, status, payload) ==
  LET c == [call EXCEPT !.slept = @ + PollDelay,
                        !.attempts = @ + 1, !.pollCalls = @ + 1,
                        !.sent = @ \cup call.token,
                        !.lastStatus = status, !.lastPayload = Some(payload)]
  IN IF status \in HttpErrors THEN Raise(c, "Error", HttpError(status))
     ELSE IF status = "Succeeded"
       THEN LET done == [c EXCEPT !.state = "Succeeded", !.result = Some(payload)]
            IN IF HandlerRaises(payload)
               THEN Raise(done, "Succeeded", "AttributeError")
               ELSE Return(done, ResultResponse(c.variant, c.name, payload))
     ELSE IF status = "Failed"
       THEN Raise(c, status, "Analysis failed with status: Failed")
     ELSE IF c.attempts >= MaxAttempts
       THEN Raise(c, "TimedOut", "Document analysis timed out")
     ELSE c

\* PollStep that polls again on Running and NotStarted only and fails on
\* every other status
PollStep_StrictStatus(call, status, payload) ==
  LET c == [call EXCEPT !.slept = @ + PollDelay,
                        !.attempts = @ + 1, !.pollCalls = @ + 1,
                        !.sent = @ \cup call.token,
                        !.lastStatus = status, !.lastPayload = Some(payload)]
  IN IF status \in HttpErrors THEN Raise(c, "Error", HttpError(status))
     ELSE IF status = "Succeeded"
       THEN LET done == [c EXCEPT !.state = "Succeeded", !.result = Some(payload)]
            IN IF HandlerRaises(payload)
               THEN Raise(done, "Succeeded", "AttributeError")
               ELSE Return(done, ResultResponse(c.variant, c.name, payload))
     ELSE IF status \notin {"Running", "NotStarted"}
       THEN Raise(c, "Failed", IF status = "Canceled"
                               THEN "Analysis failed with status: Canceled"
                               ELSE "Analysis failed with status: Failed")
     ELSE IF c.attempts >= MaxAttempts
       THEN Raise(c, "TimedOut", "Document analysis timed out")
     ELSE c

\* PollStep that calls _get_token before every poll
PollStep_RefreshToken(call, status, payload) ==
  LET c == [call EXCEPT !.slept = @ + PollDelay,
                        !.attempts = @ + 1, !.pollCalls = @ + 1,
                        !.tokenCalls = @ + 1,
                        !.token = Some(call.tokenCalls + 1),
                        !.sent = @ \cup {call.tokenCalls + 1},
                        !.lastStatus = status, !.lastPayload = Some(payload)]
  IN IF status \in HttpErrors THEN Raise(c, "Error", HttpError(status))
     ELSE IF status = "Succeeded"
       THEN LET done == [c EXCEPT !.state = "Succeeded", !.result = Some(payload)]
            IN IF HandlerRaises(payload)
               THEN Raise(done, "Succeeded", "AttributeError")
               ELSE Return(done, ResultResponse(c.variant, c.name, payload))
     ELSE IF status \in {"Failed", "Canceled"}
       THEN Raise(c, status, IF status = "Failed" THEN "Analysis failed with status: Failed"
                                ELSE "Analysis failed with status: Canceled")
     ELSE IF c.attempts >= MaxAttempts
       THEN Raise(c, "TimedOut", "Document analysis timed out")
     ELSE c

\* PollStep that swallows an HTTP error of a poll and polls again
PollStep_RetryOnError(call, status, payload) ==
  LET c == [call EXCEPT !.slept = @ + PollDelay,
                        !.attempts = @ + 1, !.pollCalls = @ + 1,
                        !.sent = @ \cup call.token,
                        !.lastStatus = status, !.lastPayload = Some(payload)]
  IN IF status = "Succeeded"
       THEN LET done == [c EXCEPT !.state = "Succeeded", !.result = Some(payload)]
            IN IF HandlerRaises(payload)
               THEN Raise(done, "Succeeded", "AttributeError")
               ELSE Return(done, ResultResponse(c.variant, c.name, payload))
     ELSE IF status \in {"Failed", "Canceled"}
       THEN Raise(c, status, IF status = "Failed" THEN "Analysis failed with status: Failed"
                                ELSE "Analysis failed with status: Canceled")
     ELSE IF c.attempts >= MaxAttempts
       THEN Raise(c, "TimedOut", "Document analysis timed out")
     ELSE c

\* PollStep that polls first and sleeps after a poll that did not end the job
PollStep_PollThenSleep(call, status, payload) ==
  LET c == [call EXCEPT !.attempts = @ + 1, !.pollCalls = @ + 1,
                        !.sent = @ \cup call.token,
                        !.lastStatus = status, !.lastPayload = Some(payload)]
  IN IF status \in HttpErrors THEN Raise(c, "Error", HttpError(status))
     ELSE IF status = "Succeeded"
       THEN LET done == [c EXCEPT !.state = "Succeeded", !.result = Some(payload)]
            IN IF HandlerRaises(payload)
               THEN Raise(done, "Succeeded", "AttributeError")
               ELSE Return(done, ResultResponse(c.variant, c.name, payload))
     ELSE IF status \in {"Failed", "Canceled"}
       THEN Raise(c, status, IF status = "Failed" THEN "Analysis failed with status: Failed"
                                ELSE "Analysis failed with status: Canceled")
     ELSE IF c.attempts >= MaxAttempts
       THEN Raise([c EXCEPT !.slept = @ + PollDelay], "TimedOut", "Document analysis timed out")
     ELSE [c EXCEPT !.slept = @ + PollDelay]

\* PollStep with "while True" in place of range(60): it never times out (the
\* counters stop at the bound, which keeps the states finite)
PollStep_NoBound(call, status, payload) ==
  LET c == [call EXCEPT !.slept = PollDelay * Min(call.pollCalls + 1, MaxAttempts),
                        !.attempts = Min(@ + 1, MaxAttempts),
                        !.pollCalls = Min(@ + 1, MaxAttempts),
                        !.sent = @ \cup call.token,
                        !.lastStatus = status, !.lastPayload = Some(payload)]
  IN IF status \in HttpErrors THEN Raise(c, "Error", HttpError(status))
     ELSE IF status = "Succeeded"
       THEN LET done == [c EXCEPT !.state = "Succeeded", !.result = Some(payload)]
            IN IF HandlerRaises(payload)
               THEN Raise(done, "Succeeded", "AttributeError")
               ELSE Return(done, ResultResponse(c.variant, c.name, payload))
     ELSE IF status \in {"Failed", "Canceled"}
       THEN Raise(c, status, IF status = "Failed" THEN "Analysis failed with status: Failed"
                                ELSE "Analysis failed with status: Canceled")
     ELSE c

\* PollStep with range(61): the bound is checked with > instead of >=
PollStep_OneMore(call, status, payload) ==
  LET c == [call EXCEPT !.slept = @ + PollDelay,
                        !.attempts = @ + 1, !.pollCalls = @ + 1,
                        !.sent = @ \cup call.token,
                        !.lastStatus = status, !.lastPayload = Some(payload)]
  IN IF status \in HttpErrors THEN Raise(c, "Error", HttpError(status))
     ELSE IF status = "Succeeded"
       THEN LET done == [c EXCEPT !.state = "Succeeded", !.result = Some(payload)]
            IN IF HandlerRaises(payload)
               THEN Raise(done, "Succeeded", "AttributeError")
               ELSE Return(done, ResultResponse(c.variant, c.name, payload))
     ELSE IF status \in {"Failed", "Canceled"}
       THEN Raise(c, status, IF status = "Failed" THEN "Analysis failed with status: Failed"
                                ELSE "Analysis failed with status: Canceled")
     ELSE IF c.attempts > MaxAttempts
       THEN Raise(c, "TimedOut", "Document analysis timed out")
     ELSE c

PollStep(call, status, payload) ==
  LET c == [call EXCEPT !.slept = @ + PollDelay,
                        !.attempts = @ + 1, !.pollCalls = @ + 1,
                        !.sent = @ \cup call.token,
                        !.lastStatus = status, !.lastPayload = Some(payload)]
  IN IF status \in HttpErrors THEN Raise(c, "Error", HttpError(status))
     ELSE IF status = "Succeeded"
       THEN LET done == [c EXCEPT !.state = "Succeeded", !.result = Some(payload)]
            IN IF HandlerRaises(payload)
               THEN Raise(done, "Succeeded", "AttributeError")
               ELSE Return(done, ResultResponse(c.variant, c.name, payload))
     ELSE IF status \in {"Failed", "Canceled"}
       THEN Raise(c, status, IF status = "Failed" THEN "Analysis failed with status: Failed"
                                ELSE "Analysis failed with status: Canceled")
     ELSE IF c.attempts >= MaxAttempts
       THEN Raise(c, "TimedOut", "Document analysis timed out")
     ELSE c

(***************************************************************************)
(* Inputs of the job specification                                         *)
(***************************************************************************)
\* how many tool calls one server serves
MaxCalls == 2

Variants == {"mcp", "azure"}

CallNames == ToolNames \cup {"delete_everything"}

DocumentUrls == {Absent, Some(<<>>), Some(<<"u">>)}

\* the poll at which the backend reports its terminal status
TermAtSet == {1, 2, MaxAttempts - 1, MaxAttempts, MaxAttempts + 1, MaxAttempts + 2}

Kv(k, v) == [key |-> Some(k), value |-> Some(v)]

SectionA ==
  [isDict |-> TRUE,
   markdown |-> <<"#", " ", "L", "o", "a", "n">>,
   fields |-> <<[isDict |-> TRUE, confidence |-> Some(90)],
                [isDict |-> TRUE, confidence |-> Some(70)]>>,
   keyValuePairs |-> <<Kv([word |-> "name", upper |-> TRUE, pad |-> TRUE], <<"A", "n", "n">>),
                       Kv(Lit("ssn"), <<"1", "2", "-", "3", "4", "5">>),
                       Kv(Lit("income"), <<"$", "1", ",", "2", "5", "0", ".", "5", "0">>)>>]

SectionB ==
  [isDict |-> TRUE,
   markdown |-> <<>>,
   fields |-> <<>>,
   keyValuePairs |-> <<Kv(Lit("loan amount"), <<"n", "/", "a">>),
                       Kv(Lit("purpose"), <<"c", "a", "r">>)>>]

\* a first section that is a JSON string, not an object
SectionC == [isDict |-> FALSE, markdown |-> <<>>, fields |-> <<>>, keyValuePairs |-> <<>>]

NoResult == [result |-> Absent]

AnalysisResults ==
  {NoResult,
   [result |-> Some([contents |-> Absent])],
   [result |-> Some([contents |-> Some(<<>>)])],
   [result |-> Some([contents |-> Some(<<SectionA>>)])],
   [result |-> Some([contents |-> Some(<<SectionB, SectionA>>)])],
   [result |-> Some([contents |-> Some(<<SectionC>>)])]}

(***************************************************************************)
(* State                                                                   *)
(***************************************************************************)
VARIABLES
  variant,      \* which server runs: "mcp" or "azure"
  endpoint,     \* whether AZURE_AI_SERVICES_ENDPOINT is set
  _cu_client,   \* function_app._cu_client
  loop,         \* the serving loop of the server: "running" or "crashed"
  call,         \* the tool invocation in progress
  served,       \* number of tool calls started
  failures,     \* number of tool calls that ended in a caught exception
  transports,   \* local_mcp_server.transports: session id -> transport object
  objs,         \* the StreamableHTTPServerTransport objects created so far
  tasks,        \* the run_server tasks created so far (the transport each runs on)
  reqs,         \* the HTTP requests in flight inside handle_mcp (a bag)
  phase,        \* lifespan: "serving", "closing", "stopped" or "failed"
  iter,         \* lifespan: the iterator over transports.values()
  analysis_result, \* the argument of a call of extract_loan_fields
  extraction,   \* that call: where it is and the record it returned
  _container,   \* customer-order-assistant mcp_server._container
  store,        \* the order item in the Cosmos DB container (Absent: no such item)
  ops,          \* the update_order_status and cancel_order calls on that order
  made,         \* number of ContentUnderstandingClient objects function_app has made
  tools,        \* the concurrent call_tool invocations of function_app
  held          \* the client object each invocation got from get_cu_client

jobvars == <<variant, endpoint, _cu_client, loop, call, served, failures>>

sessionvars == <<transports, objs, tasks, reqs, phase, iter>>

extractvars == <<analysis_result, extraction>>

ordervars == <<_container, store, ops>>

toolvars == <<made, tools, held>>

vars == <<jobvars, sessionvars, extractvars, ordervars, toolvars>>

Idle == [NewCall("mcp", "", Absent) EXCEPT !.pc = "idle"]

JobStart ==
  /\ variant \in Variants
  /\ endpoint \in BOOLEAN
  /\ _cu_client = Absent
  /\ loop = "running"
  /\ call = Idle
  /\ served = 0
  /\ failures = 0

\* bookkeeping shared by the steps of a call
Advance(c) ==
  /\ call' = c
  /\ loop' = IF c.escaped THEN "crashed" ELSE loop
  /\ failures' = IF c.pc = "done" /\ c.raised # "" THEN failures + 1 ELSE failures

\* the server receives a tools/call request
StartCall ==
  /\ loop = "running"
  /\ call.pc \in {"idle", "done"}
  /\ served < MaxCalls
  /\ \E name \in CallNames, url \in DocumentUrls :
       call' = NewCall(variant, name, url)
  /\ served' = served + 1
  /\ UNCHANGED <<variant, endpoint, _cu_client, loop, failures>>

Dispatch ==
  /\ call.pc = "call"
  /\ \E tokenOk \in BOOLEAN :
       LET client == IF variant = "mcp" THEN Some("ContentUnderstandingClient")
                 ELSE get_cu_client(_cu_client, endpoint)
       IN /\ Advance(DispatchStep(call, client, tokenOk))
          /\ _cu_client' = IF variant = "azure" /\ DispatchStep(call, client, tokenOk).clientCalls > 0
                           THEN client ELSE _cu_client
  /\ UNCHANGED <<variant, endpoint, served>>

Submit ==
  /\ call.pc = "submit"
  /\ \E outcome \in SubmitOutcomes, termAt \in TermAtSet,
        termStatus \in TerminalStatuses \cup HttpErrors :
       Advance(SubmitStep(call, outcome,
                          IF outcome = "accepted" THEN termAt ELSE 0,
                          IF outcome = "accepted" THEN termStatus ELSE ""))
  /\ UNCHANGED <<variant, endpoint, _cu_client, served>>

Poll ==
  /\ call.pc = "poll"
  /\ IF call.attempts + 1 = call.termAt
     THEN \E payload \in (IF call.termStatus = "Succeeded" THEN AnalysisResults ELSE {NoResult}) :
            Advance(PollStep(call, call.termStatus, payload))
     ELSE \E status \in InProgress :
            Advance(PollStep(call, status, NoResult))
  /\ UNCHANGED <<variant, endpoint, _cu_client, served>>

(***************************************************************************)
(* Session multiplexer (local_mcp_server.create_app).                      *)
(*                                                                         *)
(* Session ids are the values of uuid4(): the n-th call yields n.  A       *)
(* client sends no mcp-session-id header, an id the server has issued, or  *)
(* the forged id 0, which uuid4() never yields.                            *)
(*                                                                         *)
(* StreamableHTTPServerTransport belongs to the mcp library.  Of it the    *)
(* model keeps: a POST is handed to the protocol loop running on the       *)
(* transport, whose call_tool produces the response; a DELETE terminates   *)
(* the transport; close() closes it; and at any time the transport may     *)
(* answer a pending request with an error of its own.                      *)
(***************************************************************************)
\* how many sessions the server creates
MaxSessions == 2

\* how many requests are inside handle_mcp at once
MaxInflight == 2

ForgedId == 0

Methods == {"POST", "GET", "DELETE"}

SessionCallNames == {"get_document_text"}

SessionTermAt == {2}

SessionTermStatuses == {"Succeeded"}

SessionSubmitOutcomes == {"accepted"}

SessionInProgress == {"Running"}

SessionResults == {[result |-> Some([contents |-> Some(<<SectionB>>)])]}

EmptyRegistry == [k \in {} |-> 0]

SessionIdle ==
  /\ transports = EmptyRegistry
  /\ objs = <<>>
  /\ tasks = <<>>
  /\ reqs = EmptyBag
  /\ phase = "serving"
  /\ iter = [keys |-> <<>>, size |-> 0]

JobIdle ==
  /\ variant = "mcp"
  /\ endpoint = TRUE
  /\ _cu_client = Absent
  /\ loop = "running"
  /\ call = Idle
  /\ served = 0
  /\ failures = 0

\* no call of extract_loan_fields outside a tool call
ExtractIdle ==
  /\ analysis_result = NoResult
  /\ extraction = [pc |-> "ready", record |-> Absent]

\* no call on the order store
OrderIdle ==
  /\ _container = Absent
  /\ store = Absent
  /\ ops = <<>>

\* no concurrent invocation of function_app.call_tool
ToolsIdle ==
  /\ made = 0
  /\ tools = <<>>
  /\ held = <<>>

SessionInit == SessionIdle /\ JobIdle /\ ExtractIdle /\ OrderIdle /\ ToolsIdle

\* Reuse reading a header name that clients never send: its session_id is
\* always None
Reuse_WrongHeader(registry, session_id) ==
  LET sent == Absent
  IN sent # Absent /\ Get(sent) \in DOMAIN registry

\* if session_id and session_id in transports
Reuse(registry, session_id) ==
  session_id # Absent /\ Get(session_id) \in DOMAIN registry

\* StreamableHTTPServerTransport(mcp_session_id=str(uuid4()), ...)
NewTransport(uuid) ==
  [mcp_session_id |-> uuid, deleted |-> FALSE, closed |-> FALSE]

\* the transport has been terminated by a DELETE or closed by lifespan
Terminated(obj) == obj.deleted \/ obj.closed

\* transports[transport.mcp_session_id] = transport
Register(registry, key, obj) ==
  [k \in DOMAIN registry \cup {key} |-> IF k = key THEN obj ELSE registry[k]]

\* the ids a client can put in the mcp-session-id header
Headers == {Absent, Some(ForgedId)} \cup {Some(objs[i].mcp_session_id) : i \in DOMAIN objs}

\* a request inside transport.handle_request; known is the transport that
\* was registered under the request's session id when handle_mcp looked it
\* up (Absent: no header, or an id that was not registered)
Request(method, transport, known, body) ==
  [method |-> method, transport |-> transport, known |-> known,
   orphan |-> FALSE, call |-> body]

Put(bag, r) == bag (+) SetToBag({r})

Take(bag, r) == bag (-) SetToBag({r})

\* the request r has become r2
Becomes(r, r2) == reqs' = Put(Take(reqs, r), r2)

\* a poll loop that waits with time.sleep and a blocking HTTP client: the
\* call keeps the event loop for as long as it polls
Blocking_TimeSleep(r) == r.call.pc = "poll"

\* the request's coroutine keeps the event loop while it waits; the waits
\* are await asyncio.sleep(2), await client.get(...) and
\* await transport.handle_request(...), each of which hands the loop back
Blocking(r) == FALSE

\* the requests whose coroutine keeps the event loop
LoopHeldBy == {r \in BagToSet(reqs) : Blocking(r)}

\* handle_mcp that gives a new transport the session id the client sent
\* (mcp_session_id=session_id or str(uuid4()))
handle_mcp_ClientToken(method, session_id, name) ==
  /\ phase \in {"serving", "closing"}
  /\ LoopHeldBy = {}
  /\ BagCardinality(reqs) < MaxInflight
  /\ LET body == IF method = "POST" THEN NewCall("mcp", name, Some(<<"u">>)) ELSE Idle
         known == IF session_id # Absent /\ Get(session_id) \in DOMAIN transports
                  THEN Some(transports[Get(session_id)]) ELSE Absent
     IN IF Reuse(transports, session_id)
        THEN /\ reqs' = Put(reqs, Request(method, transports[Get(session_id)], known, body))
             /\ UNCHANGED <<transports, objs, tasks>>
        ELSE /\ Len(objs) < MaxSessions
             /\ LET transport == NewTransport(IF session_id # Absent THEN Get(session_id)
                                              ELSE Len(objs) + 1)
                IN /\ objs' = Append(objs, transport)
                   /\ transports' = Register(transports, transport.mcp_session_id, Len(objs) + 1)
                   /\ tasks' = Append(tasks, Len(objs) + 1)
                   /\ reqs' = Put(reqs, Request(method, Len(objs) + 1, known, body))
  /\ UNCHANGED <<phase, iter>>

\* handle_mcp that puts the new transport into the registry only after
\* transport.handle_request has returned
handle_mcp_LateRegistration(method, session_id, name) ==
  /\ phase \in {"serving", "closing"}
  /\ LoopHeldBy = {}
  /\ BagCardinality(reqs) < MaxInflight
  /\ LET body == IF method = "POST" THEN NewCall("mcp", name, Some(<<"u">>)) ELSE Idle
         known == IF session_id # Absent /\ Get(session_id) \in DOMAIN transports
                  THEN Some(transports[Get(session_id)]) ELSE Absent
     IN IF Reuse(transports, session_id)
        THEN /\ reqs' = Put(reqs, Request(method, transports[Get(session_id)], known, body))
             /\ UNCHANGED <<transports, objs, tasks>>
        ELSE /\ Len(objs) < MaxSessions
             /\ LET transport == NewTransport(Len(objs) + 1)
                IN /\ objs' = Append(objs, transport)
                   /\ transports' = transports
                   /\ tasks' = Append(tasks, Len(objs) + 1)
                   /\ reqs' = Put(reqs, Request(method, Len(objs) + 1, known, body))
  /\ UNCHANGED <<phase, iter>>

(***************************************************************************)
(* handle_mcp up to its await: session lookup, and for an unknown session  *)
(* the new transport, its registration and the run_server task.            *)
(***************************************************************************)
handle_mcp(method, session_id, name) ==
  /\ phase \in {"serving", "closing"}
  /\ LoopHeldBy = {}
  /\ BagCardinality(reqs) < MaxInflight
  /\ LET body == IF method = "POST" THEN NewCall("mcp", name, Some(<<"u">>)) ELSE Idle
         known == IF session_id # Absent /\ Get(session_id) \in DOMAIN transports
                  THEN Some(transports[Get(session_id)]) ELSE Absent
     IN IF Reuse(transports, session_id)
        THEN /\ reqs' = Put(reqs, Request(method, transports[Get(session_id)], known, body))
             /\ UNCHANGED <<transports, objs, tasks>>
        ELSE /\ Len(objs) < MaxSessions
             /\ LET transport == NewTransport(Len(objs) + 1)
                IN /\ objs' = Append(objs, transport)
                   /\ transports' = Register(transports, transport.mcp_session_id, Len(objs) + 1)
                   /\ tasks' = Append(tasks, Len(objs) + 1)
                   /\ reqs' = Put(reqs, Request(method, Len(objs) + 1, known, body))
  /\ UNCHANGED <<phase, iter>>

Receive ==
  \E method \in Methods, session_id \in Headers, name \in SessionCallNames :
     handle_mcp(method, session_id, name)

Inflight == BagToSet(reqs)

Running == phase \in {"serving", "closing"}

\* the protocol loop of the request's transport runs call_tool
LoopDispatch(r) ==
  /\ Running /\ r.call.pc = "call"
  /\ LoopHeldBy \subseteq {r}
  /\ ~Terminated(objs[r.transport])
  /\ Becomes(r, [r EXCEPT !.call = DispatchStep(@, Some("ContentUnderstandingClient"), TRUE)])
  /\ UNCHANGED <<transports, objs, tasks, phase, iter>>

LoopSubmit(r) ==
  /\ Running /\ r.call.pc = "submit"
  /\ LoopHeldBy \subseteq {r}
  /\ \E outcome \in SessionSubmitOutcomes, termAt \in SessionTermAt,
        termStatus \in SessionTermStatuses :
       Becomes(r, [r EXCEPT !.call =
                     SubmitStep(@, outcome,
                                IF outcome = "accepted" THEN termAt ELSE 0,
                                IF outcome = "accepted" THEN termStatus ELSE "")])
  /\ UNCHANGED <<transports, objs, tasks, phase, iter>>

LoopPoll(r) ==
  /\ Running /\ r.call.pc = "poll"
  /\ LoopHeldBy \subseteq {r}
  /\ LET c == r.call
         \* the request after the poll; orphan is only tracked while polling
         After(c2) == [r EXCEPT !.call = c2, !.orphan = @ /\ c2.pc = "poll"]
     IN IF c.attempts + 1 = c.termAt
        THEN \E payload \in (IF c.termStatus = "Succeeded" THEN SessionResults ELSE {NoResult}) :
               Becomes(r, After(PollStep(c, c.termStatus, payload)))
        ELSE \E status \in SessionInProgress :
               Becomes(r, After(PollStep(c, status, NoResult)))
  /\ UNCHANGED <<transports, objs, tasks, phase, iter>>

\* transport.handle_request returns the loop's response; handle_mcp returns it
Respond(r) ==
  /\ Running /\ r.method = "POST" /\ r.call.pc = "done"
  /\ LoopHeldBy \subseteq {r}
  /\ reqs' = Take(reqs, r)
  /\ UNCHANGED <<transports, objs, tasks, phase, iter>>

\* a GET is answered by the transport itself
OpenStream(r) ==
  /\ Running /\ r.method = "GET"
  /\ LoopHeldBy \subseteq {r}
  /\ reqs' = Take(reqs, r)
  /\ UNCHANGED <<transports, objs, tasks, phase, iter>>

\* the tool call of r was polling when its session t was torn down
Mark(r, t) ==
  IF r.transport = t /\ r.call.pc = "poll" THEN [r EXCEPT !.orphan = TRUE] ELSE r

RECURSIVE Copies(_, _, _, _)
Copies(bag, S, x, t) ==
  IF S = {} THEN 0
  ELSE LET r == CHOOSE y \in S : TRUE
       IN (IF Mark(r, t) = x THEN bag[r] ELSE 0) + Copies(bag, S \ {r}, x, t)

Orphan(bag, t) ==
  [x \in {Mark(r, t) : r \in BagToSet(bag)} |-> Copies(bag, BagToSet(bag), x, t)]

\* a DELETE that carries the session id: the transport terminates its
\* session and answers; handle_mcp returns the answer
Terminate(r) ==
  /\ Running /\ r.method = "DELETE" /\ r.known # Absent
  /\ LoopHeldBy \subseteq {r}
  /\ objs' = [objs EXCEPT ![r.transport].deleted = TRUE]
  /\ reqs' = Orphan(Take(reqs, r), r.transport)
  /\ UNCHANGED <<transports, tasks, phase, iter>>

\* the transport answers a request that it has not handed to the loop, or
\* a DELETE without the session id, with an error of its own
TransportError(r) ==
  /\ Running
  /\ LoopHeldBy \subseteq {r}
  /\ (r.method = "POST" /\ r.call.pc = "call") \/ (r.method = "DELETE" /\ r.known = Absent)
  /\ reqs' = Take(reqs, r)
  /\ UNCHANGED <<transports, objs, tasks, phase, iter>>

RECURSIVE SetToSeq(_)
SetToSeq(S) ==
  IF S = {} THEN <<>>
  ELSE LET m == CHOOSE x \in S : \A y \in S : x <= y
       IN <<m>> \o SetToSeq(S \ {m})

(***************************************************************************)
(* lifespan after the yield:                                               *)
(*   for transport in transports.values(): await transport.close()         *)
(*   transports.clear()                                                    *)
(* The loop yields control only inside await transport.close().  The dict  *)
(* iterator raises RuntimeError when it is asked for the next value after  *)
(* the dict changed size.  iter.keys holds the keys not yet closed, its    *)
(* head being the transport whose close() is awaited.                      *)
(***************************************************************************)
LifespanBegin ==
  /\ phase = "serving"
  /\ LoopHeldBy = {}
  /\ IF DOMAIN transports = {}
     THEN /\ phase' = "stopped"
          /\ UNCHANGED iter
     ELSE /\ phase' = "closing"
          /\ iter' = [keys |-> SetToSeq(DOMAIN transports),
                      size |-> Cardinality(DOMAIN transports)]
  /\ UNCHANGED <<transports, objs, tasks, reqs>>

\* close() of the head returns, then the iterator is asked for the next value
LifespanNext ==
  /\ phase = "closing"
  /\ LoopHeldBy = {}
  /\ LET t == transports[Head(iter.keys)]
     IN /\ objs' = [objs EXCEPT ![t].closed = TRUE]
        /\ reqs' = Orphan(reqs, t)
        /\ iter' = [iter EXCEPT !.keys = Tail(@)]
        /\ IF Cardinality(DOMAIN transports) # iter.size
           THEN /\ phase' = "failed"
                /\ UNCHANGED transports
           ELSE IF Tail(iter.keys) # <<>>
           THEN UNCHANGED <<transports, phase>>
           ELSE /\ transports' = EmptyRegistry
                /\ phase' = "stopped"
  /\ UNCHANGED tasks

SessionNext ==
  /\ \/ Receive
     \/ \E r \in Inflight : LoopDispatch(r)
     \/ \E r \in Inflight : LoopSubmit(r)
     \/ \E r \in Inflight : LoopPoll(r)
     \/ \E r \in Inflight : Respond(r)
     \/ \E r \in Inflight : OpenStream(r)
     \/ \E r \in Inflight : Terminate(r)
     \/ \E r \in Inflight : TransportError(r)
     \/ LifespanBegin
     \/ LifespanNext
  /\ UNCHANGED <<jobvars, extractvars, ordervars, toolvars>>

Spec == SessionInit /\ [][SessionNext]_vars

\* requests of clients that always send an mcp-session-id header: an id the
\* server has issued, or the forged one
ReceiveWithHeader ==
  \E method \in Methods, session_id \in Headers \ {Absent}, name \in SessionCallNames :
     handle_mcp(method, session_id, name)

HeaderNext ==
  /\ \/ ReceiveWithHeader
     \/ \E r \in Inflight : LoopDispatch(r)
     \/ \E r \in Inflight : LoopSubmit(r)
     \/ \E r \in Inflight : LoopPoll(r)
     \/ \E r \in Inflight : Respond(r)
     \/ \E r \in Inflight : OpenStream(r)
     \/ \E r \in Inflight : Terminate(r)
     \/ \E r \in Inflight : TransportError(r)
     \/ LifespanBegin
     \/ LifespanNext
  /\ UNCHANGED <<jobvars, extractvars, ordervars, toolvars>>

\* the session multiplexer serving only requests that carry a session id
SpecHeader == SessionInit /\ [][HeaderNext]_vars

JobNext ==
  (StartCall \/ Dispatch \/ Submit \/ Poll)
    /\ UNCHANGED <<sessionvars, extractvars, ordervars, toolvars>>

JobInit == JobStart /\ SessionIdle /\ ExtractIdle /\ OrderIdle /\ ToolsIdle

SpecJob == JobInit /\ [][JobNext]_vars

\* a step of the tool call in progress: call_tool runs to its next await,
\* or the backend call it awaits returns
JobStep ==
  (Dispatch \/ Submit \/ Poll) /\ UNCHANGED <<sessionvars, extractvars, ordervars, toolvars>>

\* the job specification when the event loop keeps running the call and
\* every backend call returns
SpecJobLive == JobInit /\ [][JobNext]_vars /\ WF_vars(JobStep)

(***************************************************************************)
(* The extraction pipeline on its own: extract_loan_fields of either       *)
(* server applied to one analysis result.                                  *)
(***************************************************************************)
\* how many key/value pairs the evidence list of a section has
MaxPairs == 3

Section(markdown, kv_pairs) ==
  [isDict |-> TRUE, markdown |-> markdown, fields |-> <<>>, keyValuePairs |-> kv_pairs]

Document(section) == [result |-> Some([contents |-> Some(<<section>>)])]

\* evidence for the priority order of the synonyms: synonyms of one field at
\* different ranks, a repeated key, a pair without a key, a pair without a
\* value, and first-ranked synonyms whose value is unusable
PriorityPairs ==
  {Kv([word |-> "name", upper |-> TRUE, pad |-> TRUE], <<"A", "n", "n">>),
   Kv(Lit("name"), <<"E", "v", "e">>),
   Kv(Lit("applicant name"), <<"B", "o", "b">>),
   Kv(Lit("applicant"), <<"C", "y">>),
   Kv(Lit("income"), <<"1", ",", "2", "5", "0">>),
   Kv(Lit("annual income"), <<"n", "/", "a">>),
   Kv(Lit("ssn"), <<"1", "2", "-", "3">>),
   Kv(Lit("social security"), <<"1", "2", "3", "-", "4", "5", "-", "6", "7", "8", "9">>),
   [key |-> Some(Lit("full name")), value |-> Absent],
   [key |-> Absent, value |-> Some(<<"x">>)],
   Kv(Lit("applicant name"), <<>>),
   Kv([word |-> "", upper |-> FALSE, pad |-> TRUE], <<"y">>)}

RECURSIVE Lists(_, _)
Lists(S, n) ==
  IF n = 0 THEN {<<>>}
  ELSE Lists(S, n - 1) \cup {Append(l, x) : l \in {m \in Lists(S, n - 1) : Len(m) = n - 1}, x \in S}

\* evidence for the conversions: one pair whose value is an SSN or an amount
ValueKeys == {"ssn", "income", "loan amount"}

Values ==
  {<<"$", "1", ",", "2", "5", "0", ",", "0", "0", "0", ".", "0", "0">>,
   <<"1", ",", "2", "5", "0">>,
   <<"$">>,
   <<"N", "/", "A">>,
   <<"N", "a", "N">>,
   <<"i", "n", "f">>,
   <<"-", "I", "n", "f", "i", "n", "i", "t", "y">>,
   <<"1", "e", "3">>,
   <<"2", "5", "E", "-", "1">>,
   <<"1", "e">>,
   <<"1", "_", "0">>,
   <<"1", "_", "_", "0">>,
   <<"-", "5">>,
   <<"+", ".", "5">>,
   <<"5", ".">>,
   <<".">>,
   <<" ", "7", " ">>,
   <<"1", ".", "2", ".", "3">>,
   <<"1", "2", " ", "U", "S", "D">>,
   <<"1", "2", "3", "-", "4", "5", "-", "6", "7", "8", "9">>,
   <<"1", "2", "3", "4">>,
   <<"1", "2", "-", "3">>,
   <<"x", "x", "x", "-", "x", "x", "-", "6", "7", "8", "9">>,
   <<"1", "2", "3", "-", "4", "5", "-", "6", "7", "8", "9", "^1">>,
   <<"1", "2", "3", "^2">>}

\* a text of n characters whose characters around the cap differ
Text(n) ==
  [i \in 1..n |-> IF i = RawCap THEN "y" ELSE IF i = RawCap + 1 THEN "z" ELSE "x"]

TextLengths == {0, 1, RawCap - 1, RawCap, RawCap + 1, RawCap + 2}

\* how many entries the structured-field map of a section has
MaxFields == 3

\* entries of the structured-field map: with a confidence (in hundredths),
\* without one, and one that is not a JSON object
FieldEntries ==
  {[isDict |-> TRUE, confidence |-> Some(90)],
   [isDict |-> TRUE, confidence |-> Some(70)],
   [isDict |-> TRUE, confidence |-> Some(55)],
   [isDict |-> TRUE, confidence |-> Absent],
   [isDict |-> FALSE, confidence |-> Absent]}

SectionWithFields(fields, kv_pairs) ==
  [isDict |-> TRUE, markdown |-> <<>>, fields |-> fields, keyValuePairs |-> kv_pairs]

\* the keys the synonym lists of a variant look for
KeysOf(synonyms) ==
  UNION {{synonyms[f][i] : i \in 1..Len(synonyms[f])} : f \in DOMAIN synonyms}

\* documents with two pairs, for every two keys that either variant looks for
SynonymDocs ==
  {Document(Section(<<>>, <<Kv(Lit(k1), <<"1", "2", "3", "4", "5">>),
                            Kv(Lit(k2), <<"6", "7", "8", "9", "0">>)>>)) :
     k1, k2 \in KeysOf(McpSynonyms) \cup KeysOf(AzureSynonyms)}

ExtractInputs ==
  AnalysisResults
    \cup SynonymDocs
    \cup {Document(SectionWithFields(fs, kv)) :
            fs \in Lists(FieldEntries, MaxFields),
            kv \in {<<>>, <<Kv(Lit("name"), <<"A", "n", "n">>)>>}}
    \cup {Document(Section(<<"#">>, l)) : l \in Lists(PriorityPairs, MaxPairs)}
    \cup {Document(Section(<<>>, <<Kv(Lit(k), v)>>)) : k \in ValueKeys, v \in Values}
    \cup {Document(Section(Text(n), <<>>)) : n \in TextLengths}

ExtractInit ==
  /\ JobStart
  /\ SessionIdle
  /\ OrderIdle
  /\ ToolsIdle
  /\ analysis_result \in ExtractInputs
  /\ extraction = [pc |-> "ready", record |-> Absent]

\* the call of extract_loan_fields(analysis_result): it returns a record, or
\* raises AttributeError on a first section that is not a JSON object
Extract ==
  /\ extraction.pc = "ready"
  /\ extraction' = IF HandlerRaises(analysis_result)
                   THEN [pc |-> "raised", record |-> Absent]
                   ELSE [pc |-> "returned",
                         record |-> Some(ExtractFor(variant, analysis_result))]
  /\ UNCHANGED analysis_result

ExtractNext == Extract /\ UNCHANGED <<jobvars, sessionvars, ordervars, toolvars>>

SpecExtract == ExtractInit /\ [][ExtractNext]_vars

(***************************************************************************)
(* Order store (customer-order-assistant/mcp_server.py).                   *)
(*                                                                         *)
(* update_order_status and cancel_order each read the order, change the    *)
(* copy they read and write it back with replace_item(item=order_id,       *)
(* body=item), which carries no precondition on the stored item.  The      *)
(* container performs each read and each replace atomically; a tool call   *)
(* is suspended between its read and its replace.                          *)
(***************************************************************************)
\* how many tool calls work on the order at once
MaxOps == 2

valid == {"Processing", "Shipped", "Delivered", "Cancelled"}

Order(status) ==
  [status |-> status, deliveredDate |-> Absent, cancelledDate |-> Absent,
   cancelReason |-> Absent]

\* a tool call on the order, before it has run
OrderCall(tool, new_status, reason) ==
  [tool |-> tool, new_status |-> new_status, reason |-> reason,
   pc |-> "call", old_status |-> "", body |-> Absent, response |-> Absent]

OrderCalls ==
  {OrderCall("cancel_order", "", "changed my mind")}
    \cup {OrderCall("update_order_status", s, "") : s \in valid \cup {"Refunded"}}

\* return json.dumps({"error": ...})
OrderError(op, e) ==
  [op EXCEPT !.pc = "done", !.response = Some([error |-> e, message |-> "", order |-> Absent])]

\* get_container: the container client is made on first use
get_container(container) ==
  IF container = Absent THEN Some("ContainerProxy") ELSE container

\* whether the call gets as far as get_container
UsesContainer(op) == op.tool = "cancel_order" \/ op.new_status \in valid

\* update_order_status from its start to its await of replace_item; item is
\* what read_item finds (Absent: read_item raises)
update_order_status(op, item) ==
  IF op.new_status \notin valid THEN OrderError(op, "Invalid status")
  ELSE IF item = Absent THEN OrderError(op, "NotFound")
  ELSE LET it == Get(item)
       IN [op EXCEPT !.pc = "replace", !.old_status = it.status,
             !.body = Some([it EXCEPT
                !.status = op.new_status,
                !.deliveredDate = IF op.new_status = "Delivered" THEN Some("now") ELSE @,
                !.cancelledDate = IF op.new_status = "Cancelled" THEN Some("now") ELSE @])]

\* cancel_order from its start to its await of replace_item
cancel_order(op, item) ==
  IF item = Absent THEN OrderError(op, "NotFound")
  ELSE LET it == Get(item)
       IN IF it.status = "Delivered" THEN OrderError(op, "Cannot cancel a delivered order")
          ELSE IF it.status = "Cancelled" THEN OrderError(op, "Order is already cancelled")
          ELSE [op EXCEPT !.pc = "replace", !.old_status = it.status,
                  !.body = Some([it EXCEPT !.status = "Cancelled",
                                           !.cancelledDate = Some("now"),
                                           !.cancelReason = Some(op.reason)])]

\* the stored item after container.replace_item(item=order_id, body=item)
replace_item(stored, body) == IF stored = Absent THEN stored ELSE body

\* the tool's return once replace_item has answered
Replaced(op, stored) ==
  IF stored = Absent THEN OrderError(op, "NotFound")
  ELSE [op EXCEPT !.pc = "done",
          !.response = Some([error |-> "",
                             message |-> IF op.tool = "cancel_order" THEN "Order cancelled"
                                         ELSE "Status changed",
                             order |-> op.body])]

OrderInit ==
  /\ SessionIdle /\ JobIdle /\ ExtractIdle /\ ToolsIdle
  /\ _container = Absent
  /\ store \in {Absent} \cup {Some(Order(s)) : s \in valid}
  /\ ops \in [1..MaxOps -> OrderCalls]

\* the call runs up to its replace_item; the container performs the read
OrderRead(i) ==
  /\ ops[i].pc = "call"
  /\ ops' = [ops EXCEPT ![i] = IF @.tool = "cancel_order" THEN cancel_order(@, store)
                                ELSE update_order_status(@, store)]
  /\ _container' = IF UsesContainer(ops[i]) THEN get_container(_container) ELSE _container
  /\ UNCHANGED store

\* the container performs the replace and the call returns
OrderReplace(i) ==
  /\ ops[i].pc = "replace"
  /\ store' = replace_item(store, ops[i].body)
  /\ ops' = [ops EXCEPT ![i] = Replaced(@, store)]
  /\ UNCHANGED _container

OrderNext ==
  /\ \/ \E i \in DOMAIN ops : OrderRead(i)
     \/ \E i \in DOMAIN ops : OrderReplace(i)
  /\ UNCHANGED <<jobvars, sessionvars, extractvars, toolvars>>

SpecOrder == OrderInit /\ [][OrderNext]_vars

(***************************************************************************)
(* Concurrent tool calls of the azure-functions server (function_app.py).  *)
(*                                                                         *)
(* call_tool is a coroutine; get_cu_client and _get_token are plain        *)
(* functions that it calls before its first await, so the test of          *)
(* _cu_client and the assignment to it happen in one step.  The calls      *)
(* interleave at await client.post, await asyncio.sleep and                *)
(* await client.get.                                                       *)
(***************************************************************************)
\* how many invocations of call_tool are in progress at once
MaxTools == 2

ToolTermAt == {1, 2}

ToolTermStatuses == {"Succeeded", "Failed"}

ToolsInit ==
  /\ SessionIdle /\ ExtractIdle /\ OrderIdle
  /\ variant = "azure"
  /\ endpoint \in BOOLEAN
  /\ _cu_client = Absent
  /\ loop = "running"
  /\ call = Idle
  /\ served = 0
  /\ failures = 0
  /\ made = 0
  /\ tools \in [1..MaxTools -> {NewCall("azure", name, url) :
                                  name \in CallNames, url \in DocumentUrls}]
  /\ held = [i \in 1..MaxTools |-> Absent]

\* whether call_tool gets as far as get_cu_client
NeedsClient(c) == DispatchStep(c, Some("ContentUnderstandingClient"), TRUE).clientCalls > 0

\* ToolDispatch whose get_cu_client awaits (the credential) between the test
\* "_cu_client is None" and the assignment to _cu_client
ToolDispatch_AwaitBeforeAssign(i) ==
  \/ /\ tools[i].pc = "call"
     /\ NeedsClient(tools[i]) /\ _cu_client = Absent /\ endpoint
     /\ tools' = [tools EXCEPT ![i].pc = "creating"]
     /\ UNCHANGED <<_cu_client, made, held>>
  \/ /\ tools[i].pc = "call"
     /\ ~(NeedsClient(tools[i]) /\ _cu_client = Absent /\ endpoint)
     /\ \E tokenOk \in BOOLEAN :
          LET client == get_cu_client(_cu_client, endpoint)
              d == DispatchStep(tools[i], client, tokenOk)
          IN /\ tools' = [tools EXCEPT ![i] = d]
             /\ held' = [held EXCEPT ![i] = IF d.clientCalls > 0 /\ client # Absent
                                            THEN Some(made) ELSE Absent]
     /\ UNCHANGED <<_cu_client, made>>
  \/ /\ tools[i].pc = "creating"
     /\ \E tokenOk \in BOOLEAN :
          tools' = [tools EXCEPT ![i] =
                      DispatchStep([@ EXCEPT !.pc = "call"],
                                   Some("ContentUnderstandingClient"), tokenOk)]
     /\ _cu_client' = Some("ContentUnderstandingClient")
     /\ made' = made + 1
     /\ held' = [held EXCEPT ![i] = Some(made + 1)]

\* call_tool up to its first await; the client object the call holds is
\* the one made last
ToolDispatch(i) ==
  /\ tools[i].pc = "call"
  /\ \E tokenOk \in BOOLEAN :
       LET client == get_cu_client(_cu_client, endpoint)
           d == DispatchStep(tools[i], client, tokenOk)
           reached == d.clientCalls > 0
       IN /\ tools' = [tools EXCEPT ![i] = d]
          /\ _cu_client' = IF reached THEN client ELSE _cu_client
          /\ made' = IF reached /\ _cu_client = Absent /\ client # Absent
                     THEN made + 1 ELSE made
          /\ held' = [held EXCEPT ![i] = IF reached /\ client # Absent
                                         THEN Some(made') ELSE Absent]

ToolSubmit(i) ==
  /\ tools[i].pc = "submit"
  /\ \E outcome \in SubmitOutcomes, termAt \in ToolTermAt, termStatus \in ToolTermStatuses :
       tools' = [tools EXCEPT ![i] =
                   SubmitStep(@, outcome,
                              IF outcome = "accepted" THEN termAt ELSE 0,
                              IF outcome = "accepted" THEN termStatus ELSE "")]
  /\ UNCHANGED <<_cu_client, made, held>>

ToolPoll(i) ==
  /\ tools[i].pc = "poll"
  /\ LET c == tools[i]
     IN IF c.attempts + 1 = c.termAt
        THEN \E payload \in (IF c.termStatus = "Succeeded" THEN SessionResults ELSE {NoResult}) :
               tools' = [tools EXCEPT ![i] = PollStep(c, c.termStatus, payload)]
        ELSE tools' = [tools EXCEPT ![i] = PollStep(c, "Running", NoResult)]
  /\ UNCHANGED <<_cu_client, made, held>>

ToolsNext ==
  /\ \/ \E i \in DOMAIN tools : ToolDispatch(i)
     \/ \E i \in DOMAIN tools : ToolSubmit(i)
     \/ \E i \in DOMAIN tools : ToolPoll(i)
  /\ UNCHANGED <<variant, endpoint, loop, call, served, failures>>
  /\ UNCHANGED <<sessionvars, extractvars, ordervars>>

SpecTools == ToolsInit /\ [][ToolsNext]_vars

(***************************************************************************)
(* Properties of the job engine and the dispatcher (SpecJob)               *)
(***************************************************************************)
Resp == Get(call.response)

NoBackendCall(c) ==
  c.tokenCalls = 0 /\ c.clientCalls = 0 /\ c.submitCalls = 0 /\ c.pollCalls = 0

\* C5: a job whose backend reports a non-terminal status on every poll before
\* poll k <= 60 and Succeeded on poll k keeps polling until poll k and then
\* ends in Succeeded with the payload of poll k; this covers k = 60.
C5_SucceedsAtPollK ==
  (call.termStatus = "Succeeded" /\ call.termAt \in 1..MaxAttempts) =>
     /\ call.pc \in {"poll", "done"}
     /\ call.pc = "poll" => call.attempts < call.termAt /\ call.state = "Polling"
     /\ call.pc = "done" =>
          /\ call.state = "Succeeded"
          /\ call.pollCalls = call.termAt
          /\ call.lastStatus = "Succeeded"
          /\ call.result = call.lastPayload

C5_Witness ==
  /\ call.pc = "done" /\ call.state = "Succeeded"
  /\ call.termAt = MaxAttempts /\ call.pollCalls = MaxAttempts
  /\ ContentsOf(Get(call.result)) # <<>>

\* C6 as stated: the job times out only once 61 consecutive polls have been
\* answered with an in-progress status; 60 such answers do not time it out.
C6_Original ==
  call.state = "TimedOut" => call.pollCalls >= MaxAttempts + 1

\* C6 amended: the job times out exactly when 60 consecutive polls have been
\* answered with a non-terminal status; the timeout is raised right after
\* the 60th answer and a 61st poll is never issued.
C6_TimeoutAfter60 ==
  /\ call.pollCalls <= MaxAttempts
  /\ call.state = "TimedOut" <=>
       (call.pc = "done" /\ call.pollCalls = MaxAttempts /\ call.lastStatus \in InProgress)
  /\ call.state = "TimedOut" => call.raised = "Document analysis timed out"
  /\ (call.pc = "done" /\ call.termAt > MaxAttempts) => call.state = "TimedOut"

C6_Witness ==
  call.state = "TimedOut" /\ call.termAt = MaxAttempts + 1 /\ call.pollCalls = MaxAttempts

\* C7: a call of a tool name outside the registry is answered with the
\* unknown-tool error and performs no client, token, submit or poll call.
C7_UnknownTool ==
  (call.pc # "idle" /\ call.name \notin ToolNames) =>
     /\ call.pc \in {"call", "done"}
     /\ NoBackendCall(call)
     /\ call.state = "None"
     /\ call.pc = "done" =>
          /\ Resp.tag = UnknownToolResponse(variant, call.name).tag
          /\ Resp.msg = call.name
          /\ Resp.status = UnknownToolResponse(variant, call.name).status
          /\ Resp.data = Absent

C7_Witness ==
  call.pc = "done" /\ call.name = "delete_everything" /\ Resp.msg = "delete_everything"

\* C8: for both tools, the step that handles a call whose document_url is
\* missing or empty answers with the missing-argument error, performs no
\* client, token, submit or poll call and leaves the server state unchanged.
C8_MissingArgument ==
  [][(call.pc = "call" /\ call.name \in ToolNames
        /\ call.document_url \in {Absent, Some(<<>>)}) =>
       /\ call'.pc = "done"
       /\ Get(call'.response) = MissingArgumentResponse(variant)
       /\ NoBackendCall(call')
       /\ call'.state = "None" /\ call'.raised = ""
       /\ UNCHANGED <<variant, endpoint, _cu_client, loop, served, failures>>]_vars

C8_Witness ==
  /\ call.pc = "done" /\ call.name \in ToolNames /\ call.document_url = Some(<<>>)
  /\ Resp.msg = "document_url is required" /\ NoBackendCall(call)

\* C9: every exception raised below the dispatcher during a tool call ends
\* the call with an error payload carrying the exception's message as a
\* normal response; it does not escape, the serving loop stays up, and the
\* server accepts its next call.
C9_FailuresAreCaught ==
  /\ loop = "running"
  /\ ~call.escaped
  /\ call.raised # "" =>
       /\ call.pc = "done"
       /\ call.response # Absent
       /\ Resp = ErrorResponse(variant, call.raised)
  /\ (call.pc = "done" /\ call.raised # "" /\ served < MaxCalls) => ENABLED StartCall

C9_Witness ==
  /\ failures > 0 /\ call.pc = "done" /\ call.state = "Succeeded"
  /\ call.raised = "" /\ Resp.tag = "json"

\* C10: extract applied to an analysis result without content sections
\* (no result, no contents, or empty contents) yields a record whose fields
\* are all absent.
C10_EmptyRecord ==
  (call.pc = "done" /\ call.name = "extract_loan_data" /\ call.state = "Succeeded"
     /\ ContentsOf(Get(call.result)) = <<>>) =>
       /\ Resp.tag = "json"
       /\ \A f \in FieldNames : Get(Resp.data)[f] = Absent

C10_Witness ==
  /\ call.pc = "done" /\ call.name = "extract_loan_data" /\ call.state = "Succeeded"
  /\ Get(call.result).result # Absent
  /\ Get(Get(call.result).result).contents = Some(<<>>)
  /\ Resp.tag = "json"

\* C18: when the submission is accepted without an Operation-Location
\* header, the job fails at once with the protocol error, which the
\* dispatcher returns, and no poll is ever issued; a job polls only with an
\* operation handle.
C18_NoHandleNoPoll ==
  /\ (call.pc = "poll" \/ call.pollCalls > 0) => call.operation_location # Absent
  /\ (call.submitCalls > 0 /\ call.operation_location = Absent) =>
       /\ call.pc = "done" /\ call.state = "Error" /\ call.pollCalls = 0
       /\ call.raised \in {"No Operation-Location header in response",
                            "HTTPStatusError 401", "HTTPStatusError 500"}
  /\ call.raised = "No Operation-Location header in response" =>
       /\ call.pc = "done" /\ call.pollCalls = 0 /\ call.submitCalls = 1
       /\ Resp = ErrorResponse(variant, call.raised)

C18_Witness ==
  /\ call.pc = "done" /\ call.submitCalls = 1 /\ call.pollCalls = 0
  /\ call.raised = "No Operation-Location header in response"
  /\ Resp.msg = "No Operation-Location header in response"

\* C19: a poll that reports Failed or Canceled ends the job at that poll in
\* the reported state, with the analysis-failed error naming the status, and
\* the job issues no poll after it.
C19_TerminalFailure ==
  /\ call.lastStatus \in {"Failed", "Canceled"} =>
       /\ call.pc = "done"
       /\ call.state = call.lastStatus
       /\ call.pollCalls = call.termAt
       /\ call.raised = (IF call.lastStatus = "Failed"
                         THEN "Analysis failed with status: Failed"
                         ELSE "Analysis failed with status: Canceled")
       /\ Resp = ErrorResponse(variant, call.raised)
  /\ call.state \in {"Failed", "Canceled"} => call.lastStatus = call.state

C19_Witness ==
  /\ call.pc = "done" /\ call.state = "Canceled" /\ call.lastStatus = "Canceled"
  /\ call.pollCalls = 2 /\ call.termAt = 2
  /\ call.raised = "Analysis failed with status: Canceled"

\* the step is a poll of the job that was answered with a status
PollAnswered ==
  /\ call.pc = "poll" /\ call'.pollCalls = call.pollCalls + 1
  /\ call'.lastStatus \notin HttpErrors

\* C20: a poll answered with an in-progress, unrecognized or missing status
\* leaves the job in Polling, ready for its next poll, while fewer than 60
\* polls have been made; of the polls that are answered with a status, only
\* one with Succeeded, Failed or Canceled, or the 60th, takes the job out of
\* Polling.
C20_KeepsPolling ==
  [][PollAnswered =>
       /\ (call'.lastStatus \in InProgress /\ call'.pollCalls < MaxAttempts) =>
             /\ call'.pc = "poll" /\ call'.state = "Polling"
             /\ call'.response = Absent /\ call'.raised = ""
       /\ (call'.pc # "poll" \/ call'.state # "Polling") =>
             \/ call'.lastStatus \in TerminalStatuses /\ call'.state = call'.lastStatus
             \/ call'.pollCalls = MaxAttempts /\ call'.state = "TimedOut"]_vars

C20_Witness ==
  /\ call.pc = "poll" /\ call.state = "Polling"
  /\ call.pollCalls = MaxAttempts - 1 /\ call.lastStatus = ""

\* C21: a job run asks the token provider for a token once, before the
\* submission, and the submit and every poll of the run carry that token; a
\* poll asks for no token.
C21_OneTokenPerRun ==
  /\ call.tokenCalls <= 1
  /\ call.submitCalls > 0 => call.tokenCalls = 1 /\ call.token = Some(1)
  /\ call.sent \subseteq call.token
  /\ call.submitCalls + call.pollCalls > 0 => call.sent = call.token
  /\ call.pc \in {"submit", "poll"} => call.token # Absent

C21_Witness ==
  /\ call.pc = "done" /\ call.state = "Succeeded"
  /\ call.pollCalls = MaxAttempts - 1
  /\ call.tokenCalls = 1 /\ call.sent = {1}

\* C22: an authorization failure or other HTTP error on the submit or on a
\* poll ends the job run at once with that failure: the run makes one submit,
\* one token request and no poll after the failed call.
C22_NoRetry ==
  /\ call.submitCalls <= 1
  /\ call.lastStatus \in HttpErrors =>
       /\ call.pc = "done" /\ call.state = "Error"
       /\ call.pollCalls = call.termAt
       /\ call.raised = HttpError(call.lastStatus)
  /\ call.raised \in {HttpError(a) : a \in HttpErrors} =>
       /\ call.pc = "done" /\ call.state = "Error"
       /\ call.tokenCalls = 1 /\ call.submitCalls = 1
       /\ call.lastStatus \in HttpErrors \/ call.pollCalls = 0
       /\ Resp = ErrorResponse(variant, call.raised)

C22_Witness ==
  /\ call.pc = "done" /\ call.lastStatus = "unauthorized"
  /\ call.pollCalls = 2 /\ call.submitCalls = 1 /\ call.tokenCalls = 1
  /\ Resp.msg = "HTTPStatusError 401"

\* C23: provided every backend call returns, every tool call returns, and a
\* job run that was submitted ends in one of Succeeded (with its payload),
\* Failed, Canceled, TimedOut or a backend error, whatever statuses the
\* backend reports.
C23_Terminates ==
  (call.pc \in {"call", "submit", "poll"}) ~>
     (/\ call.pc = "done"
      /\ call.response # Absent
      /\ call.submitCalls > 0 =>
           /\ call.state \in {"Succeeded", "Failed", "Canceled", "TimedOut", "Error"}
           /\ call.state = "Succeeded" <=> call.result # Absent
           /\ call.state # "Succeeded" => call.raised # "")

C23_Witness ==
  /\ call.pc = "done" /\ call.state = "TimedOut" /\ call.termAt = MaxAttempts + 1
  /\ call.response # Absent /\ served = MaxCalls

\* C29: a job run issues at most 60 polls, it has slept one delay of 2
\* before each of them, the first included, and a run whose 60 polls all
\* report a non-terminal status raises the timeout after 60 delays and 60
\* polls.
C29_BoundedPolls ==
  /\ call.pollCalls <= MaxAttempts
  /\ call.slept = PollDelay * call.pollCalls
  /\ (call.pc = "done" /\ call.pollCalls = MaxAttempts /\ call.lastStatus \in InProgress) =>
       /\ call.state = "TimedOut"
       /\ call.raised = "Document analysis timed out"
       /\ call.slept = PollDelay * MaxAttempts
  /\ call.pc = "poll" => call.pollCalls < MaxAttempts

C29_Witness ==
  /\ call.pc = "done" /\ call.state = "TimedOut"
  /\ call.pollCalls = MaxAttempts /\ call.slept = 120
  /\ call.termAt = MaxAttempts + 2

(***************************************************************************)
(* Properties of the session multiplexer (Spec)                            *)
(***************************************************************************)
LoopsOf(token) == {k \in DOMAIN tasks : objs[tasks[k]].mcp_session_id = token}

\* C1: at most one protocol loop is ever started for a session token, and a
\* request whose token is registered is handled by the transport registered
\* for that token, so two requests with one token never reach two loops.
C1_OneLoopPerToken ==
  /\ \A o \in DOMAIN objs : Cardinality(LoopsOf(objs[o].mcp_session_id)) = 1
  /\ \A k1, k2 \in DOMAIN tasks : tasks[k1] = tasks[k2] => k1 = k2
  /\ \A k \in DOMAIN transports : objs[transports[k]].mcp_session_id = k
  /\ \A r \in Inflight :
       /\ r.known # Absent => r.transport = Get(r.known)
       /\ \E k \in DOMAIN tasks : tasks[k] = r.transport

C1_Witness ==
  \E r \in Inflight :
     /\ r.known # Absent /\ r.method = "POST"
     /\ (reqs[r] >= 2 \/ \E r2 \in Inflight : r2 # r /\ r2.known = r.known
                                                /\ r2.method = "POST")

\* the tokens the server has allocated so far
Allocated == {objs[i].mcp_session_id : i \in DOMAIN objs}

\* the registry entry of the session that request r is handled by
Registered(r) ==
  /\ objs[r.transport].mcp_session_id \in DOMAIN transports
  /\ transports[objs[r.transport].mcp_session_id] = r.transport

\* C15: handle_mcp, for a request whose session-token header is absent or
\* names no registered session, allocates a token that was never allocated,
\* starts one new protocol loop on a fresh transport and registers the
\* transport under the new token, all in the step that accepts the request;
\* and whenever a request is answered, the entry of its session is in the
\* registry.
C15_RegisteredBeforeResponse ==
  [][/\ \A method \in Methods, session_id \in Headers, name \in SessionCallNames :
          (/\ session_id = Absent \/ Get(session_id) \notin DOMAIN transports
           /\ handle_mcp(method, session_id, name)) =>
             LET t == Len(objs) + 1
             IN /\ Len(objs') = t
                /\ objs'[t].mcp_session_id \notin Allocated \cup {ForgedId}
                /\ ~Terminated(objs'[t])
                /\ tasks' = Append(tasks, t)
                /\ DOMAIN transports' = DOMAIN transports \cup {objs'[t].mcp_session_id}
                /\ transports'[objs'[t].mcp_session_id] = t
                /\ \E r \in BagToSet(reqs') :
                      /\ r.transport = t /\ r.method = method
                      /\ r.call.response = Absent
                      /\ reqs' = Put(reqs, r)
     /\ BagCardinality(reqs') < BagCardinality(reqs) => \A r \in Inflight : Registered(r)]_vars

C15_Witness ==
  /\ Len(objs) = 2 /\ DOMAIN transports = {1, 2}
  /\ \E r \in Inflight :
       /\ r.known = Absent /\ r.method = "POST" /\ r.transport = 2
       /\ r.call.pc = "call" /\ Registered(r)

\* C16, for lookups made before the shutdown cleanup: the registry lookup of
\* handle_mcp returns a live session or not-found, never a transport that
\* has been terminated or closed.
C16_LookupLiveOrNotFound ==
  [][\A method \in Methods, session_id \in Headers, name \in SessionCallNames :
        (/\ phase = "serving"
         /\ Reuse(transports, session_id)
         /\ handle_mcp(method, session_id, name)) =>
           ~Terminated(objs[transports[Get(session_id)]])]_vars

\* C3: once a DELETE for a session has been answered, and once the shutdown
\* cleanup has completed, the registry has no entry for the session.
C3_TerminationRemovesSession ==
  /\ \A o \in DOMAIN objs :
       objs[o].deleted => objs[o].mcp_session_id \notin DOMAIN transports
  /\ phase = "stopped" => DOMAIN transports = {}

\* C4: a tool call that was polling when its session was torn down issues no
\* further poll.
C4_NoPollAfterTeardown ==
  [][\A r \in Inflight : r.orphan => ~LoopPoll(r)]_vars

\* C31, for clients that send a session id with every request: after every step each registry key is the session id of the
\* transport it maps to and one of the ids the server generated, never the
\* id a client made up; and a request that carries an id that is not
\* registered adds no entry under that id: it is served by a new session
\* registered under an id that was not in use before.
C31_KeysAreServerIds ==
  [][/\ \A k \in DOMAIN transports' :
          /\ transports'[k] \in DOMAIN objs'
          /\ objs'[transports'[k]].mcp_session_id = k
          /\ k \in 1..Len(objs') /\ k # ForgedId
     /\ \A method \in Methods, name \in SessionCallNames :
          handle_mcp(method, Some(ForgedId), name) =>
             /\ DOMAIN transports' \ DOMAIN transports = {Len(objs) + 1}
             /\ Len(objs) + 1 \notin Allocated \cup {ForgedId}
             /\ \E r \in BagToSet(reqs') :
                   /\ reqs' = Put(reqs, r)
                   /\ r.known = Absent /\ r.method = method
                   /\ transports'[Len(objs) + 1] = r.transport
                   /\ objs'[r.transport].mcp_session_id = Len(objs) + 1]_vars

C31_Witness ==
  /\ DOMAIN transports = {1, 2} /\ ForgedId \notin DOMAIN transports
  /\ \E r \in Inflight :
       /\ r.known = Absent /\ r.method = "POST"
       /\ r.transport = 2 /\ transports[2] = 2 /\ objs[2].mcp_session_id = 2
       /\ r.call.pc = "done" /\ r.call.response # Absent

\* the requests of other sessions than r's
Others(r) == {r2 \in Inflight : r2.transport # r.transport}

\* C27: while the tool call of one session is between two polls, a request
\* of another session can be resolved to its session, its tool call can
\* take its next step, and its response can be returned.
C27_SuspendedDoesNotBlock ==
  \A r \in Inflight :
     (phase = "serving" /\ r.call.pc = "poll") =>
        /\ \A r2 \in Others(r) :
             /\ r2.call.pc = "call" => ENABLED (LoopDispatch(r2) \/ TransportError(r2))
             /\ r2.call.pc = "submit" => ENABLED LoopSubmit(r2)
             /\ r2.call.pc = "poll" => ENABLED LoopPoll(r2)
             /\ (r2.call.pc = "done" /\ r2.method = "POST") => ENABLED Respond(r2)
        /\ BagCardinality(reqs) < MaxInflight =>
             \A session_id \in Headers, name \in SessionCallNames :
                (/\ Reuse(transports, session_id)
                 /\ transports[Get(session_id)] # r.transport) =>
                   ENABLED handle_mcp("POST", session_id, name)

C27_Witness ==
  \E r \in Inflight :
     /\ phase = "serving" /\ r.call.pc = "poll" /\ r.call.attempts = 1
     /\ \E r2 \in Others(r) :
          /\ r2.known # Absent /\ r2.method = "POST"
          /\ r2.call.pc = "done" /\ r2.call.response # Absent
          /\ ENABLED Respond(r2)

\* C30: when the shutdown cleanup has ended, every session that was
\* registered has had its transport closed and the registry is empty, also
\* when sessions were created while the cleanup went through the registry.
C30_CleanupClosesAll ==
  phase \in {"stopped", "failed"} =>
     /\ DOMAIN transports = {}
     /\ \A o \in DOMAIN objs : objs[o].closed

(***************************************************************************)
(* Properties of the extraction pipeline (SpecExtract)                     *)
(***************************************************************************)
Returned == extraction.pc = "returned"

Record == Get(extraction.record)

\* the first section of the analysis result
FirstSection == ContentsOf(analysis_result)[1]

HasSection == ContentsOf(analysis_result) # <<>>

Pairs == FirstSection.keyValuePairs

\* the key of a pair as the lookup sees it, and whether the pair is kept
KeyOf(kv) == Strip(Lower(Content(kv.key))).word

Kept(kv) == KeyOf(kv) # "" /\ ValueContent(kv.value) # <<>>

\* the ranks, in the priority order of field f, of the synonyms in evidence
RanksInEvidence(f) ==
  {i \in 1..Len(Synonyms(variant)[f]) :
     \E j \in 1..Len(Pairs) : Kept(Pairs[j]) /\ KeyOf(Pairs[j]) = Synonyms(variant)[f][i]}

\* the pair that decides field f: of the synonym of the best rank, the pair
\* seen last
Deciding(f) ==
  LET i == CHOOSE r \in RanksInEvidence(f) : \A q \in RanksInEvidence(f) : r <= q
      js == {j \in 1..Len(Pairs) :
               Kept(Pairs[j]) /\ KeyOf(Pairs[j]) = Synonyms(variant)[f][i]}
  IN Pairs[CHOOSE j \in js : \A k \in js : k <= j]

KvFields == DOMAIN McpSynonyms

TextFields ==
  {"applicant_name", "employment_status", "employer_name", "loan_purpose", "property_address"}

NumericFields == {"annual_income", "loan_amount_requested"}

\* C11: when synonyms of a field are in evidence, the field is taken from the
\* synonym that is first in the field's priority order, wherever its pair is
\* in the evidence list: the field is what the pair of that synonym alone
\* yields (for a text field, its value), and a field without a synonym in
\* evidence is absent.
C11_PriorityOrder ==
  (Returned /\ HasSection) =>
     \A f \in KvFields :
        IF RanksInEvidence(f) = {} THEN Record[f] = Absent
        ELSE /\ Record[f] =
                  ExtractFor(variant, Document(Section(<<>>, <<Deciding(f)>>)))[f]
             /\ f \in TextFields => Record[f] = Deciding(f).value

C11_Witness ==
  /\ Returned /\ HasSection
  /\ Len(Pairs) = 3
  /\ KeyOf(Pairs[1]) = "name" /\ KeyOf(Pairs[2]) = "applicant"
  /\ KeyOf(Pairs[3]) = "applicant name"
  /\ Record.applicant_name = Some(<<"B", "o", "b">>)

\* the matched value of a numeric field after .replace(",", "").replace("$", "")
Residual(f) == Replace(Replace(Get(Deciding(f).value), ","), "$")

\* a string of decimal digits with at most one '.', and its value
PlainNumeral(s) ==
  /\ \A i \in 1..Len(s) : s[i] \in Digits \cup {"."}
  /\ Cardinality(DotAt(s)) <= 1
  /\ \E i \in 1..Len(s) : s[i] \in Digits

PlainValue(s) == Finite(DigitsValue(Filter(s, Digits)), FractionLen(s))

\* C12: a matched value of a numeric field made of digits, ',' and '$' (and
\* a '.') yields the number left after removing ',' and '$'; a matched value
\* whose residual is not numeric yields an absent field; a numeric field is
\* a number or absent.
C12_NumberOrAbsent ==
  (Returned /\ HasSection) =>
     \A f \in NumericFields :
        /\ (RanksInEvidence(f) # {} /\ PlainNumeral(Residual(f))) =>
              Record[f] = Some(PlainValue(Residual(f)))
        /\ Record[f] # Absent =>
              /\ Get(Record[f]).kind = "finite"
              /\ \E i \in 1..Len(Residual(f)) : Residual(f)[i] \in Digits

\* C13: ssn_last_4 is absent when the matched value has fewer than 4 decimal
\* digits, and is otherwise the last four of its decimal digits.
C13_LastFourDecimalDigits ==
  (Returned /\ HasSection /\ RanksInEvidence("ssn_last_4") # {}) =>
     LET decimal == Filter(Get(Deciding("ssn_last_4").value), Digits)
     IN Record.ssn_last_4 =
          IF Len(decimal) < 4 THEN Absent
          ELSE Some(SubSeq(decimal, Len(decimal) - 3, Len(decimal)))

\* C14 as stated: the raw text is the first section's text cut to its first
\* 2000 characters when it is longer, and the text itself when it is 2000
\* characters or shorter, the empty text included.
C14_Original ==
  (Returned /\ HasSection) =>
     Record.raw_markdown =
       Some(IF Len(FirstSection.markdown) > RawCap
            THEN SubSeq(FirstSection.markdown, 1, RawCap)
            ELSE FirstSection.markdown)

\* C14 amended: the raw text is the first section's text cut to exactly its
\* first 2000 characters when it is longer, the text itself when it has 1 to
\* 2000 characters, and absent when the text is empty.
C14_RawText ==
  (Returned /\ HasSection) =>
     LET text == FirstSection.markdown
     IN IF text = <<>> THEN Record.raw_markdown = Absent
        ELSE IF Len(text) > RawCap
          THEN /\ Record.raw_markdown = Some(SubSeq(text, 1, RawCap))
               /\ Len(Get(Record.raw_markdown)) = RawCap
        ELSE Record.raw_markdown = Some(text)

C14_Witness ==
  /\ Returned /\ HasSection
  /\ Len(FirstSection.markdown) = RawCap + 1
  /\ Len(Get(Record.raw_markdown)) = RawCap
  /\ Get(Record.raw_markdown)[RawCap] = "y"

\* C24: extract returns a record for every analysis result; it never raises.
C24_Total == extraction.pc # "raised"

\* the positions of the pairs that the lookup keeps under key k
PairsOf(k) == {j \in 1..Len(Pairs) : Kept(Pairs[j]) /\ KeyOf(Pairs[j]) = k}

Last(S) == CHOOSE j \in S : \A k \in S : k <= j

\* C25: the lookup built from the first section's pairs has exactly the
\* normalized keys of the pairs that have a key and a value, and holds for
\* each key the value of the last pair with that key; a field found under
\* the key gets that value.
C25_LastSeenWins ==
  (Returned /\ HasSection) =>
     LET kv_lookup == BuildLookup(Pairs, EmptyLookup)
     IN /\ DOMAIN kv_lookup = {KeyOf(Pairs[j]) : j \in {i \in 1..Len(Pairs) : Kept(Pairs[i])}}
        /\ \A k \in DOMAIN kv_lookup :
             kv_lookup[k] = ValueContent(Pairs[Last(PairsOf(k))].value)
        /\ (/\ PairsOf("name") # {}
            /\ PairsOf("applicant name") = {} /\ PairsOf("borrower name") = {}) =>
             Record.applicant_name = Pairs[Last(PairsOf("name"))].value

C25_Witness ==
  /\ Returned /\ HasSection /\ Len(Pairs) = 3
  /\ PairsOf("name") = {1, 3}
  /\ Pairs[1].value # Pairs[3].value
  /\ Content(Pairs[3].key).pad
  /\ Record.applicant_name = Pairs[3].value

\* the entries of the structured-field map that carry a confidence
Confident ==
  {i \in 1..Len(FirstSection.fields) :
     FirstSection.fields[i].isDict /\ FirstSection.fields[i].confidence # Absent}

RECURSIVE Total(_)
Total(S) ==
  IF S = {} THEN 0
  ELSE LET i == CHOOSE j \in S : TRUE
       IN Get(FirstSection.fields[i].confidence) + Total(S \ {i})

\* C26: the confidence score is the sum of the confidence values of the
\* first section's structured-field map divided by their number, is absent
\* when the map is empty or carries no confidence value, and is the same
\* with and without the key/value evidence.
C26_MeanConfidence ==
  (Returned /\ HasSection) =>
     /\ IF Confident = {} THEN Record.confidence_score = Absent
        ELSE /\ Record.confidence_score # Absent
             /\ Get(Record.confidence_score).den > 0
             /\ Get(Record.confidence_score).num * Cardinality(Confident)
                  = Total(Confident) * Get(Record.confidence_score).den
     /\ Record.confidence_score =
          ExtractFor(variant,
                     Document([FirstSection EXCEPT !.keyValuePairs = <<>>])).confidence_score

C26_Witness ==
  /\ Returned /\ HasSection
  /\ Len(FirstSection.fields) = 3 /\ Cardinality(Confident) = 2
  /\ Total(Confident) = 145 /\ Pairs # <<>>
  /\ Record.confidence_score = Some([num |-> 145, den |-> 2])

\* C28: when two or more synonyms of a field are in evidence and the value
\* of the first of them in priority order is unusable (an SSN value with
\* fewer than 4 digits, an amount that does not parse), the field is absent:
\* no later synonym is consulted.
C28_FirstMatchOnly ==
  (Returned /\ HasSection) =>
     /\ (/\ Cardinality(RanksInEvidence("ssn_last_4")) >= 2
         /\ Len(Filter(Get(Deciding("ssn_last_4").value), Digits)) < 4) =>
           Record.ssn_last_4 = Absent
     /\ \A f \in NumericFields :
          (/\ Cardinality(RanksInEvidence(f)) >= 2
           /\ float(Residual(f)) = Absent) =>
             Record[f] = Absent

C28_Witness ==
  /\ Returned /\ HasSection /\ Len(Pairs) = 3
  /\ KeyOf(Pairs[1]) = "social security" /\ KeyOf(Pairs[2]) = "ssn"
  /\ KeyOf(Pairs[3]) = "income"
  /\ Len(Filter(Get(Pairs[1].value), Digits)) >= 4
  /\ Record.ssn_last_4 = Absent
  /\ Record.annual_income # Absent

\* the ranks, in the priority order of field f, of the synonyms that are in
\* the evidence only with an empty value
EmptyRanks(f) ==
  {i \in 1..Len(Synonyms(variant)[f]) :
     /\ \E j \in 1..Len(Pairs) : KeyOf(Pairs[j]) = Synonyms(variant)[f][i]
     /\ \A j \in 1..Len(Pairs) :
          KeyOf(Pairs[j]) = Synonyms(variant)[f][i] => ValueContent(Pairs[j].value) = <<>>}

\* C32: the lookup has no empty key and no empty value, and each of its
\* keys comes from a pair that has both; a text field of which a synonym is
\* in evidence only with an empty value is filled from the first synonym
\* that has a value, also when that synonym is later in the priority order.
C32_EmptyPairsLeftOut ==
  (Returned /\ HasSection) =>
     LET kv_lookup == BuildLookup(Pairs, EmptyLookup)
     IN /\ \A k \in DOMAIN kv_lookup :
             /\ k # "" /\ kv_lookup[k] # <<>>
             /\ \E j \in 1..Len(Pairs) :
                   /\ KeyOf(Pairs[j]) = k
                   /\ Content(Pairs[j].key) # Lit("")
                   /\ Pairs[j].value = Some(kv_lookup[k])
        /\ \A f \in TextFields :
             (EmptyRanks(f) # {} /\ RanksInEvidence(f) # {}) =>
                /\ Record[f] = Deciding(f).value
                /\ Record[f] \notin {Absent, Some(<<>>)}
        /\ \A f \in TextFields :
             (EmptyRanks(f) # {} /\ RanksInEvidence(f) = {}) => Record[f] = Absent

C32_Witness ==
  /\ Returned /\ HasSection /\ Len(Pairs) = 3
  /\ 1 \in EmptyRanks("applicant_name")
  /\ RanksInEvidence("applicant_name") = {3}
  /\ \E j \in 1..3 : KeyOf(Pairs[j]) = "" /\ Content(Pairs[j].key).pad
  /\ Record.applicant_name = Some(<<"E", "v", "e">>)

\* every pair of the first section that enters the lookup has a key that
\* the azure-functions variant looks for
AzureKeysOnly ==
  HasSection =>
     \A j \in 1..Len(Pairs) : Kept(Pairs[j]) => KeyOf(Pairs[j]) \in KeysOf(AzureSynonyms)

\* C33: on an analysis result whose evidence keys all belong to the synonym
\* lists of the azure-functions variant, the record that the variant that
\* ran returned is, field by field, the record of either variant.
C33_VariantsAgree ==
  (Returned /\ AzureKeysOnly) =>
     \A f \in DOMAIN Record :
        /\ Record[f] = ExtractFor("mcp", analysis_result)[f]
        /\ Record[f] = ExtractFor("azure", analysis_result)[f]

C33_Witness ==
  /\ Returned /\ variant = "mcp" /\ HasSection /\ AzureKeysOnly
  /\ Len(Pairs) = 2
  /\ KeyOf(Pairs[1]) = "current employer" /\ KeyOf(Pairs[2]) = "employer name"
  /\ Record.employer_name = Pairs[2].value
  /\ Record = ExtractFor("azure", analysis_result)

(***************************************************************************)
(* Properties of the order store (SpecOrder)                               *)
(***************************************************************************)
\* C34: cancel_order replaces the stored order only when the status stored
\* at the moment of the replace is neither Delivered nor Cancelled.
C34_CancelKeepsFinalStatus ==
  [][\A i \in DOMAIN ops :
        (ops[i].tool = "cancel_order" /\ OrderReplace(i)) =>
           Get(store).status \notin {"Delivered", "Cancelled"}]_vars

(***************************************************************************)
(* Properties of the concurrent tool calls (SpecTools)                     *)
(***************************************************************************)
\* C35: at most one ContentUnderstandingClient is ever made; every call
\* that got a client holds that one object, which is the one in _cu_client;
\* without the endpoint setting get_cu_client raises in every call that
\* reaches it, and _cu_client stays unset.
C35_ClientMadeOnce ==
  /\ made <= 1
  /\ (made = 0) <=> (_cu_client = Absent)
  /\ \A i \in DOMAIN tools :
       /\ held[i] # Absent => held[i] = Some(1) /\ _cu_client # Absent
       /\ tools[i].clientCalls > 0 =>
            IF endpoint THEN held[i] # Absent
            ELSE /\ held[i] = Absent
                 /\ tools[i].raised = "AZURE_AI_SERVICES_ENDPOINT is required"
                 /\ _cu_client = Absent

C35_Witness ==
  /\ made = 1 /\ _cu_client # Absent
  /\ \A i \in DOMAIN tools : tools[i].pc = "poll" /\ held[i] = Some(1)

====
